---- MODULE Spec2Model ----
(***************************************************************************)
(* State-machine model of the headless agent adapter                       *)
(* (libs/claude/headless_adapter.py) and of the sandbox workspace manager  *)
(* (libs/claude/workspace.py).                                             *)
(*                                                                         *)
(* The adapter runs on one asyncio event loop: a coroutine runs without    *)
(* interruption from one suspension point (an await that really waits) to  *)
(* the next.  Every action below is one such uninterrupted stretch.        *)
(***************************************************************************)
EXTENDS Integers, Sequences, FiniteSets, TLC

\* ------------------------------------------------------------------ bounds
\* Number of run_task calls that reach the subprocess launch.
MaxRuns == 2
\* Number of stdout lines a subprocess writes.
MaxLines == 1
\* Number of cancel_task calls (dispose_agent's included) waiting at a time.
MaxCancels == 1
\* Number of create_agent calls that get past the capacity check.
MaxAgents == 2
\* Number of components of a path given to validate_path.
MaxPathLen == 3
\* Number of words of a command given to validate_command_execution.
MaxCmdLen == 3
\* Number of tasks submitted to the provider manager.
MaxTasks == 1
\* Number of chunks a provider's stream yields.
MaxChunks == 1
\* Number of key slots the provider dict comes to hold.
MaxEntries == 3
\* events put on one queue with nobody reading
MaxQueued == 1025
\* events emitted while iterations run
MaxEvents == 3
\* provider objects the router constructs
MaxProviders == 3
\* lines the backend of a provider stream sends
MaxStreamLines == 3

\* ------------------------------------------------------- program constants
\* HeadlessAdapter.max_concurrent (constructor argument).
max_concurrent == 1
\* Optional[...] = None for current_process / current_run_id.
NoRun == 0

\* Agent ids are uuid4 strings: dash-separated groups.  An id is the
\* sequence of its groups.
UuidPool == <<  <<"a1", "x">>, <<"a2", "y">>, <<"a3", "z">>  >>
AgentIds == {UuidPool[i] : i \in 1..MaxAgents}
\* uuid.uuid4().hex[:8], the random suffix of a sandbox name.
Suffixes == {"s1"}
\* The suffixes drawn when create_sandbox is called directly.
SandboxSuffixes == {"s1", "s2"}

Runs == 1..MaxRuns

\* AIProviderType members that clients register and address.
Kinds == {"claude_code", "openai_gpt"}
\* AITask.task_id: the router makes one uuid4 per request.
TaskIds == 1..MaxTasks
\* A slot of the dict whose key was popped.
Dummy == "dummy"

\* An execute_task / stream_task call that has not been made.
NoTask == [op |-> "none", kind |-> "none", pc |-> "new", invoked |-> FALSE,
           rejected |-> FALSE, chunks |-> 0, fails |-> 0, result |-> "none"]
\* No manager cancel_task call has returned.
NoCancel == [task |-> 0, live |-> FALSE, provider |-> "none",
             provider_result |-> FALSE, res |-> FALSE]
\* cleanup_all has not been called.
NoShutdown == [pc |-> "idle", pos |-> 1, di_used |-> 0, cur |-> "none",
               at_start |-> {}, cleaned |-> [k \in Kinds |-> 0], raised |-> {}]

\* A provider's execute_task / stream_task that has not been called.
NoProviderTask == [kind |-> "none", op |-> "none", pc |-> "new",
                   status |-> "none", chunks |-> 0, cancel |-> "none",
                   left_open |-> FALSE]
\* No subprocess and no HTTP request.
NoBackend == [st |-> "none", sig |-> "none", code |-> "None"]

\* TaskOptions.tools of a run_task call: None, or a list of tool names.
NoTools == {}
ToolRequests == {NoTools, {"WebFetch"}}

\* What the clients and the operating system do in one explored scenario:
\* how many agents are created and runs launched, how many lines a child
\* writes, how many cancellations wait at once, and whether wall-clock time
\* (run timeouts, directory ages) passes; trace: whether `last` records what
\* the calls return; requests: the tool lists the clients' run_task calls
\* ask for.
Scenarios ==
    { \* overlapping run_task calls on one agent
      [agents |-> 1, runs |-> MaxRuns, lines |-> 0, cancels |-> 0,
       clock |-> FALSE, trace |-> FALSE, requests |-> {NoTools}],
      \* one run with output, cancellation, disposal and timeouts
      [agents |-> 1, runs |-> 1, lines |-> MaxLines, cancels |-> MaxCancels,
       clock |-> TRUE, trace |-> FALSE, requests |-> {NoTools}],
      \* several agents against the ceiling, with ageing sandboxes
      [agents |-> MaxAgents, runs |-> 1, lines |-> 0, cancels |-> MaxCancels,
       clock |-> TRUE, trace |-> FALSE, requests |-> {NoTools}],
      \* one run, return values watched
      [agents |-> 1, runs |-> 1, lines |-> 0, cancels |-> MaxCancels,
       clock |-> FALSE, trace |-> TRUE, requests |-> ToolRequests] }

VARIABLES
    env,               \* the scenario
    \* HeadlessAdapter
    active_agents,     \* keys of self.active_agents
    agent,             \* the AgentProcess objects (they outlive the map entry)
    events,            \* everything put on agent.event_queue, in order
    uuids,             \* agent ids uuid4 has produced
    next_run,          \* run ids uuid4 has produced
    proc,              \* the subprocesses, by the run that launched them
    starting,          \* run_task calls suspended in create_subprocess_exec
    monitor,           \* the _monitor_process tasks, by the run that made them
    cancels,           \* cancel_task calls suspended in process.wait()
    expired,           \* runs whose effective timeout has elapsed
    cancel_ok,         \* agents whose last control call was a cancel returning True
    last,              \* the call that returned most recently
    \* DefaultWorkspaceManager
    active_sandboxes,  \* self.active_sandboxes
    dirs,              \* names of the directories under base_path
    old_dirs,          \* those whose mtime is more than 24 hours back
    \* validate_path
    vp_path, vp_agent, vp_result,
    \* validate_command_execution
    pol_command, pol_result,
    \* the tools each run_task call asked for, by run
    requested,
    \* AIProviderManager
    entries,           \* the key slots of the dict self._providers, in order
    initialized,       \* provider._initialized of the provider under each key
    active_tasks,      \* keys of self._active_tasks
    task,              \* the execute_task / stream_task calls, by task id
    reg_last,          \* the manager cancel_task call that returned last
    shutdown,          \* the cleanup_all call
    \* the providers (ClaudeCodeProvider, OpenAIProvider)
    ptask,             \* the providers' execute_task / stream_task calls, by task id
    backend,           \* each task's subprocess or HTTP request
    active_processes,  \* keys of ClaudeCodeProvider._active_processes
    timed_out,         \* tasks whose task.timeout has elapsed
    pcancels,          \* provider cancel_task calls waiting for a process
    \* DefaultWorkspaceManager called directly
    sb_returned,       \* the paths create_sandbox returned, by agent id
    du,                \* bytes of the files in each sandbox directory
    quota_last,        \* the enforce_quota call that returned last
    \* one monitor and the output of its subprocess, line by line
    out,
    \* HeadlessAdapter.shutdown
    shut,              \* the flag, the call's position and its agent_ids list
    \* TaskOptions.merge_with_config
    merge,             \* the call that returned last
    \* one agent's event_queue, counted
    qsize,             \* event_queue.qsize()
    \* one agent's event_queue and the stream_events iterations on it
    event_queue,       \* the events waiting, by serial number
    emitted,           \* how many events _emit_event has put
    in_map,            \* agent_id in self.active_agents
    shutdown_event,    \* self._shutdown_event.is_set()
    iters,             \* the stream_events generators: position and what they yielded
    \* the provider objects behind the router
    providers,         \* self._providers: the provider object under each kind
    is_initialized,    \* provider._initialized of each provider object
    next_provider,     \* the provider objects the router has constructed, counted
    register,          \* the POST /register request in progress, or the last one
    live_task,         \* the task in self._active_tasks and the object executing it
    rcancel,           \* the manager cancel_task call that returned last
    \* one provider stream_task generator
    pstream            \* what the backend sends, how far it was read, the chunks yielded

adapter_vars == <<active_agents, agent, events, uuids, next_run, proc, starting,
                  monitor, cancels, expired, cancel_ok, last>>
ws_vars == <<active_sandboxes, dirs, old_dirs>>
vp_vars == <<vp_path, vp_agent, vp_result>>
pol_vars == <<pol_command, pol_result>>
req_vars == <<requested>>
reg_vars == <<entries, initialized, active_tasks, task, reg_last, shutdown>>
prov_vars == <<ptask, backend, active_processes, timed_out, pcancels>>
sbx_vars == <<sb_returned, du, quota_last>>
out_vars == <<out>>
shut_vars == <<shut>>
stream_vars == <<event_queue, emitted, in_map, shutdown_event, iters>>
router_vars == <<providers, is_initialized, next_provider, register, live_task, rcancel>>
ext_vars == <<merge, qsize, stream_vars, router_vars, pstream>>
side_vars == <<vp_vars, pol_vars, req_vars, reg_vars, prov_vars, sbx_vars, out_vars, shut_vars,
               ext_vars>>
vars == <<env, adapter_vars, ws_vars, side_vars>>

\* ================================================================ workspace

\* f"agent-{agent_id}-{suffix}" as its dash-separated parts.
SandboxName(id, sfx) == <<"agent">> \o id \o <<sfx>>

\* sandbox_path.name.split("-")
Split(name) == name

\* base_path.glob(f"agent-{agent_id}-*"): the names that start with
\* "agent-<id>-"; '*' matches any rest, dashes included.
GlobAgent(ds, id) ==
    {n \in ds : /\ Len(n) >= Len(id) + 2
                /\ SubSeq(n, 1, Len(id) + 1) = <<"agent">> \o id}

\* cleanup_orphaned_sandboxes: the directories the sweep may remove.
\* parts[1] of the split name is taken to be the agent id.
OrphanOwner(n) == <<Split(n)[2]>>

SweepEligible(ds, olds, act) ==
    {n \in ds : /\ Len(Split(n)) >= 2
                /\ OrphanOwner(n) \notin act
                /\ n \in olds}


\* Outcome of create_sandbox(agent_id, suffix): the directory listing and the
\* live set after it.  how = "ok": every step ran; "fail_early": mkdir of the
\* sandbox raised; "fail_late": a later mkdir/chmod/write raised, after the
\* directory was made and before active_sandboxes.add.
CreateSandboxDirs(ds, id, sfx, how) ==
    IF how = "fail_early" THEN ds ELSE ds \cup {SandboxName(id, sfx)}

CreateSandboxActive(act, id, how) ==
    IF how = "ok" THEN act \cup {id} ELSE act

\* cleanup_sandbox(agent_id) when rmtree removed `removed` of the matching
\* directories: True iff something matched and no rmtree raised.
CleanupSandboxOk(ds, id, removed) ==
    GlobAgent(ds, id) # {} /\ removed = GlobAgent(ds, id)

CleanupSandboxActive(ds, act, id, removed) ==
    IF CleanupSandboxOk(ds, id, removed) THEN act \ {id} ELSE act

\* The directory names create_sandbox can make when it is called directly.
SandboxNames == {SandboxName(id, sfx) : id \in AgentIds, sfx \in SandboxSuffixes}

\* An empty sandbox: no bytes under temp/, none elsewhere, no temp/.
NoUsage == [temp |-> 0, other |-> 0, has_temp |-> FALSE]

\* No enforce_quota call has returned.
NoQuotaCall == [called |-> FALSE, max_size_mb |-> 0, before |-> 0, after |-> 0,
                temp_after |-> 0, res |-> FALSE]

\* A subprocess that has written nothing, and its monitor in the read loop.
NoOutput == [lines |-> <<>>, nread |-> 0, events |-> <<>>, pc |-> "read",
             exited |-> FALSE]

\* shutdown() has not been called: _shutdown_event is clear.
NoShutdownCall == [flag |-> FALSE, pc |-> "idle", agent_ids |-> {}]

\* ================================================================== adapter

NoAgent == [status |-> "none", current_process |-> NoRun,
            current_run_id |-> NoRun, error_message |-> "None"]

NoProc == [st |-> "unborn", agent |-> <<>>, code |-> "None", sig |-> "none",
           budget |-> 0, buf |-> 0]

NoMonitor == [pc |-> "none", agent |-> <<>>, p |-> NoRun, return_code |-> "None"]

NoCall == [op |-> "none", agent |-> <<>>, run |-> NoRun, res |-> "none"]

\* AgentEvent.create(event_type, data, agent_id, run_id); of data only the
\* status of a status_change is kept.  src is the subprocess whose output or
\* exit the event reports (NoRun for the events the control calls emit).
Event(type, run, status, src) ==
    [type |-> type, run |-> run, status |-> status, src |-> src]

\* The value of `last` after a call returns or raises, in the scenarios that
\* watch return values.
Returned(op, a, r, res) ==
    IF env.trace THEN [op |-> op, agent |-> a, run |-> r, res |-> res] ELSE NoCall

\* process.returncode: None until asyncio has reaped the child.
Returncode(p) == IF proc[p].st = "exited" THEN proc[p].code ELSE "None"

\* The process is alive in the operating system.
Alive(p) == proc[p].st = "running"

\* The stream_events calls on the agent, and one that has not been made.
Iterations == {1, 2}
NoIteration == [pc |-> "new", yielded |-> <<>>]

\* The provider objects the router constructs, numbered; none.
ProviderObjects == 1..MaxProviders
NoProvider == 0
\* No POST /register request has been made.
NoRegister == [pc |-> "idle", kind |-> "none", provider |-> NoProvider,
               before |-> [k \in Kinds |-> NoProvider], outcome |-> "none"]
\* self._active_tasks is empty.
NoLiveTask == [live |-> FALSE, kind |-> "none", provider |-> NoProvider]
\* cancel_task of the manager has not been called.
NoManagerCancel == [called |-> FALSE, executing |-> NoProvider, reached |-> NoProvider,
                    res |-> FALSE]

\* No provider stream_task generator has been started.
NoStream == [kind |-> "none", pc |-> "new", input |-> <<>>, returncode |-> 0,
             chunks |-> <<>>]

\* No merge_with_config call has returned.
NoMerge == [called |-> FALSE]

\* The adapter, the workspace manager and the policy after construction.
Constructed ==
    /\ active_agents = {}
    /\ agent = [a \in AgentIds |-> NoAgent]
    /\ events = [a \in AgentIds |-> <<>>]
    /\ uuids = {}
    /\ next_run = 1
    /\ proc = [r \in Runs |-> NoProc]
    /\ starting = {}
    /\ monitor = [r \in Runs |-> NoMonitor]
    /\ cancels = {}
    /\ expired = {}
    /\ cancel_ok = {}
    /\ last = NoCall
    /\ active_sandboxes = {}
    /\ dirs = {}
    /\ old_dirs = {}
    /\ vp_path = <<>>
    /\ vp_agent = "none"
    /\ vp_result = FALSE
    /\ pol_command = <<>>
    /\ pol_result = "none"
    /\ requested = [r \in Runs |-> NoTools]
    /\ entries = <<>>
    /\ initialized = [k \in Kinds |-> FALSE]
    /\ active_tasks = {}
    /\ task = [t \in TaskIds |-> NoTask]
    /\ reg_last = NoCancel
    /\ shutdown = NoShutdown
    /\ ptask = [t \in TaskIds |-> NoProviderTask]
    /\ backend = [t \in TaskIds |-> NoBackend]
    /\ active_processes = {}
    /\ timed_out = {}
    /\ pcancels = {}
    /\ sb_returned = [id \in AgentIds |-> <<>>]
    /\ du = [n \in SandboxNames |-> NoUsage]
    /\ quota_last = NoQuotaCall
    /\ out = NoOutput
    /\ shut = NoShutdownCall
    /\ merge = NoMerge
    /\ qsize = 0
    /\ event_queue = <<>>
    /\ emitted = 0
    /\ in_map = TRUE
    /\ shutdown_event = FALSE
    /\ iters = [i \in Iterations |-> NoIteration]
    /\ providers = [k \in Kinds |-> NoProvider]
    /\ is_initialized = [n \in ProviderObjects |-> FALSE]
    /\ next_provider = 1
    /\ register = NoRegister
    /\ live_task = NoLiveTask
    /\ rcancel = NoManagerCancel
    /\ pstream = NoStream

Init ==
    /\ env \in Scenarios
    /\ Constructed

\* ---------------------------------------------------------- create_agent

\* The capacity check off by one: `>` for `>=`.
AtCapacityOffByOne(n) == n > max_concurrent

\* len(self.active_agents) >= self.max_concurrent
AtCapacity(n) == n >= max_concurrent

CreateAgent ==
    \/ /\ AtCapacity(Cardinality(active_agents))
       /\ last' = Returned("create_agent", <<>>, NoRun, "capacity")
       /\ UNCHANGED <<active_agents, agent, events, uuids, next_run, proc,
                      starting, monitor, cancels, expired, cancel_ok>>
       /\ UNCHANGED <<ws_vars, env, side_vars>>
    \/ /\ ~AtCapacity(Cardinality(active_agents))
       /\ Cardinality(uuids) < env.agents
       /\ \E id \in AgentIds \ uuids, sfx \in Suffixes,
             how \in {"ok", "fail_early", "fail_late"} :
            /\ uuids' = uuids \cup {id}
            /\ dirs' = CreateSandboxDirs(dirs, id, sfx, how)
            /\ old_dirs' = old_dirs \ {SandboxName(id, sfx)}
            /\ active_sandboxes' = CreateSandboxActive(active_sandboxes, id, how)
            /\ IF how = "ok"
               THEN /\ active_agents' = active_agents \cup {id}
                    /\ agent' = [agent EXCEPT ![id] =
                                   [NoAgent EXCEPT !.status = "created"]]
                    /\ events' = [events EXCEPT ![id] =
                                   Append(@, Event("status_change", NoRun, "created", NoRun))]
                    /\ last' = Returned("create_agent", id, NoRun, "ok")
               ELSE /\ last' = Returned("create_agent", id, NoRun, "failed")
                    /\ UNCHANGED <<active_agents, agent, events>>
       /\ UNCHANGED <<next_run, proc, starting, monitor, cancels, expired,
                      cancel_ok, env, side_vars>>


\* -------------------------------------------------------------- run_task

\* First stretch of run_task: the lookups and checks, the merge of the
\* options, _build_command, and create_subprocess_exec up to the point where
\* it waits for the child's pipes.  The child is forked in this stretch; a
\* failing fork (how = "fail") raises into the except clause.
RunTask(a) ==
    \/ /\ a \notin active_agents
       /\ last' = Returned("run_task", a, NoRun, "not_found")
       /\ UNCHANGED <<active_agents, agent, events, uuids, next_run, proc,
                      starting, monitor, cancels, expired, cancel_ok>>
       /\ UNCHANGED <<ws_vars, env, side_vars>>
    \/ /\ a \in active_agents
       /\ agent[a].status = "running"
       /\ last' = Returned("run_task", a, NoRun, "already_running")
       /\ UNCHANGED <<active_agents, agent, events, uuids, next_run, proc,
                      starting, monitor, cancels, expired, cancel_ok>>
       /\ UNCHANGED <<ws_vars, env, side_vars>>
    \/ /\ a \in active_agents
       /\ agent[a].status # "running"
       /\ next_run <= env.runs
       /\ \E how \in {"ok", "fail"}, tools \in env.requests :
            /\ next_run' = next_run + 1
            /\ requested' = [requested EXCEPT ![next_run] = tools]
            /\ cancel_ok' = cancel_ok \ {a}
            /\ IF how = "ok"
               THEN /\ proc' = [proc EXCEPT ![next_run] =
                                  [NoProc EXCEPT !.st = "running", !.agent = a,
                                                 !.budget = env.lines]]
                    /\ starting' = starting \cup {[agent |-> a, run |-> next_run]}
                    /\ UNCHANGED <<agent, last>>
               ELSE /\ agent' = [agent EXCEPT ![a].status = "error",
                                              ![a].error_message = "launch"]
                    /\ last' = Returned("run_task", a, next_run, "failed")
                    /\ UNCHANGED <<proc, starting>>
       /\ UNCHANGED <<active_agents, events, uuids, monitor, cancels, expired>>
       /\ UNCHANGED <<ws_vars, env, vp_vars, pol_vars, reg_vars, prov_vars, sbx_vars, out_vars, shut_vars, ext_vars>>

\* run_task leaving the TaskStart event to a later stretch: nothing is put
\* on the queue before the monitor can run.
StartEventsDeferred(q, r) == q

\* The event run_task puts on the queue once the subprocess is up.
StartEvents(q, r) == Append(q, Event("task_start", r, "-", NoRun))

\* Second stretch: create_subprocess_exec has returned.  The agent record is
\* updated, the monitor task is created (it runs later) and TaskStart is put
\* on the unbounded queue, which does not wait.
RunTaskResume(s) ==
    /\ s \in starting
    /\ starting' = starting \ {s}
    /\ agent' = [agent EXCEPT ![s.agent].current_process = s.run,
                              ![s.agent].status = "running",
                              ![s.agent].current_run_id = s.run]
    /\ monitor' = [monitor EXCEPT ![s.run] =
                     [NoMonitor EXCEPT !.pc = "start", !.agent = s.agent]]
    /\ events' = [events EXCEPT ![s.agent] = StartEvents(@, s.run)]
    /\ last' = Returned("run_task", s.agent, s.run, "ok")
    /\ UNCHANGED <<active_agents, uuids, next_run, proc, cancels, expired,
                   cancel_ok>>
    /\ UNCHANGED <<ws_vars, env, side_vars>>

\* ------------------------------------------------------------ subprocess

\* The child writes a line to its stdout pipe.
ProcWrite(p) ==
    /\ proc[p].st = "running"
    /\ proc[p].budget > 0
    /\ proc' = [proc EXCEPT ![p].budget = @ - 1, ![p].buf = @ + 1]
    /\ UNCHANGED <<active_agents, agent, events, uuids, next_run, starting,
                   monitor, cancels, expired, cancel_ok, last>>
    /\ UNCHANGED <<ws_vars, env, side_vars>>

\* Exit statuses a child can end with, given the last signal sent to it.
ExitCodes(sig) ==
    CASE sig = "kill" -> {"-9"}
      [] sig = "term" -> {"-15"}
      [] OTHER        -> {"0", "1"}

\* The child ends: its stdout reaches end of file.  returncode stays None
\* until the child watcher's callback has run (ProcReap).
ProcExit(p) ==
    /\ proc[p].st = "running"
    /\ \E c \in ExitCodes(proc[p].sig) :
         proc' = [proc EXCEPT ![p].st = "closing", ![p].code = c,
                              ![p].budget = 0]
    /\ UNCHANGED <<active_agents, agent, events, uuids, next_run, starting,
                   monitor, cancels, expired, cancel_ok, last>>
    /\ UNCHANGED <<ws_vars, env, side_vars>>

ProcReap(p) ==
    /\ proc[p].st = "closing"
    /\ proc' = [proc EXCEPT ![p].st = "exited"]
    /\ UNCHANGED <<active_agents, agent, events, uuids, next_run, starting,
                   monitor, cancels, expired, cancel_ok, last>>
    /\ UNCHANGED <<ws_vars, env, side_vars>>

\* The effective timeout of the agent's current run elapses (wall clock).
\* Nothing in the adapter is armed on it: _build_command passes no timeout
\* to the child and run_task starts no timer.
TimerExpire(p) ==
    /\ env.clock
    /\ proc[p].st = "running"
    /\ p \notin expired
    /\ agent[proc[p].agent].current_run_id = p
    /\ expired' = expired \cup {p}
    /\ UNCHANGED <<active_agents, agent, events, uuids, next_run, proc, starting,
                   monitor, cancels, cancel_ok, last>>
    /\ UNCHANGED <<ws_vars, env, side_vars>>


\* ------------------------------------------------------ _monitor_process

\* `while agent.current_process.returncode is None:` evaluated on the record
\* ag, and what follows up to the next wait: either the readline on that
\* process's stdout, or (loop left) the read of return_code and the
\* communicate() on agent.current_process.
LoopCheck(m, ag) ==
    IF Returncode(ag.current_process) = "None"
    THEN [m EXCEPT !.pc = "read", !.p = ag.current_process]
    ELSE [m EXCEPT !.pc = "drain", !.p = ag.current_process,
                   !.return_code = Returncode(ag.current_process)]

\* `break` out of the read loop: return_code is read whatever it is.
PostLoop(m, ag) ==
    [m EXCEPT !.pc = "drain", !.p = ag.current_process,
              !.return_code = Returncode(ag.current_process)]

\* _process_output_line on n lines: one event each, tagged with the agent's
\* current run id at that moment.
OutputEvents(q, n, run, p) == q \o [i \in 1..n |-> Event("log", run, "-", p)]

\* The status the monitor records for a captured return code.
ExitStatus(rc) == IF rc = "0" THEN "idle" ELSE "error"

\* The terminal event the monitor emits for a captured return code.
ExitEvent(rc, run, p) ==
    IF rc = "0" THEN Event("task_complete", run, "-", p)
    ELSE Event("error", run, "-", p)

MonitorStart(r) ==
    /\ monitor[r].pc = "start"
    /\ monitor' = [monitor EXCEPT ![r] = LoopCheck(@, agent[monitor[r].agent])]
    /\ UNCHANGED <<active_agents, agent, events, uuids, next_run, proc, starting,
                   cancels, expired, cancel_ok, last>>
    /\ UNCHANGED <<ws_vars, env, side_vars>>

\* The readline (wait_for ..., timeout=1.0) returns: a line, end of file, or
\* the one-second timeout.
MonitorRead(r) ==
    /\ monitor[r].pc = "read"
    /\ LET m == monitor[r]
           a == m.agent
       IN \/ /\ proc[m.p].buf > 0
             /\ proc' = [proc EXCEPT ![m.p].buf = @ - 1]
             /\ events' = [events EXCEPT ![a] =
                             OutputEvents(@, 1, agent[a].current_run_id, m.p)]
             /\ monitor' = [monitor EXCEPT ![r] = LoopCheck(m, agent[a])]
          \/ /\ proc[m.p].buf = 0
             /\ proc[m.p].st # "running"
             /\ monitor' = [monitor EXCEPT ![r] = PostLoop(m, agent[a])]
             /\ UNCHANGED <<proc, events>>
          \/ /\ proc[m.p].buf = 0
             /\ monitor' = [monitor EXCEPT ![r] = LoopCheck(m, agent[a])]
             /\ UNCHANGED <<proc, events>>
    /\ UNCHANGED <<active_agents, agent, uuids, next_run, starting, cancels,
                   expired, cancel_ok, last>>
    /\ UNCHANGED <<ws_vars, env, side_vars>>

\* communicate() returns (the process has been reaped and its pipes are at
\* end of file): the remaining lines become events, then the status update.
MonitorDrain(r) ==
    /\ monitor[r].pc = "drain"
    /\ proc[monitor[r].p].st = "exited"
    /\ LET m == monitor[r]
           a == m.agent
           run == agent[a].current_run_id
       IN /\ proc' = [proc EXCEPT ![m.p].buf = 0]
          /\ events' = [events EXCEPT ![a] =
                          Append(OutputEvents(@, proc[m.p].buf, run, m.p),
                                 ExitEvent(m.return_code, run, m.p))]
          /\ agent' = [agent EXCEPT
                         ![a].status = ExitStatus(m.return_code),
                         ![a].error_message =
                             IF m.return_code = "0" THEN @ ELSE "exit",
                         ![a].current_run_id = NoRun]
          /\ monitor' = [monitor EXCEPT ![r].pc = "done"]
    /\ UNCHANGED <<active_agents, uuids, next_run, starting, cancels, expired,
                   cancel_ok, last>>
    /\ UNCHANGED <<ws_vars, env, side_vars>>


\* ------------------------------------------- cancel_task / dispose_agent

\* dispose_agent after its cancel_task call: cleanup_sandbox (whose result
\* is not looked at), del self.active_agents[agent_id], the Disposed event.
\* ag and evs are the agent records and queues as cancel_task left them.
\* rmtree removes `removed` of the matching directories and raises on the
\* next one, if any is left.  del raises KeyError when another dispose_agent
\* has removed the entry; the except clause then returns False.
DisposeTail(a, ag, evs) ==
    \E removed \in SUBSET GlobAgent(dirs, a) :
        /\ dirs' = dirs \ removed
        /\ old_dirs' = old_dirs \ removed
        /\ active_sandboxes' = CleanupSandboxActive(dirs, active_sandboxes, a, removed)
        /\ agent' = ag
        /\ cancel_ok' = cancel_ok \ {a}
        /\ IF a \in active_agents
           THEN /\ active_agents' = active_agents \ {a}
                /\ events' = [evs EXCEPT ![a] =
                                Append(@, Event("status_change", NoRun, "disposed", NoRun))]
                /\ last' = Returned("dispose_agent", a, NoRun, "true")
           ELSE /\ active_agents' = active_agents
                /\ events' = evs
                /\ last' = Returned("dispose_agent", a, NoRun, "false")

\* cancel_task's status update without the reset of the run id.
CancelledKeepsRun(rec) == [rec EXCEPT !.status = "idle"]

\* The agent record after cancel_task's status update.
Cancelled(rec) == [rec EXCEPT !.status = "idle", !.current_run_id = NoRun]

\* The event cancel_task emits.
CancelEvents(q, r) == Append(q, Event("status_change", r, "idle", NoRun))

\* cancel_task(a, r) up to `await wait_for(process.wait(), 5.0)`, or to its
\* return when there is nothing to signal.  byDispose: the call is the one
\* dispose_agent awaits.
CancelCall(a, r, byDispose) ==
    LET cp == agent[a].current_process IN
    IF cp # NoRun /\ Returncode(cp) = "None"
    THEN /\ Cardinality(cancels) < env.cancels
         /\ proc' = [proc EXCEPT ![cp].sig =
                       IF proc[cp].st = "running" /\ @ = "none" THEN "term" ELSE @]
         /\ cancels' = cancels \cup
               {[agent |-> a, run |-> r, p |-> cp, pc |-> "wait",
                 dispose |-> byDispose]}
         /\ cancel_ok' = IF byDispose THEN cancel_ok \ {a} ELSE cancel_ok
         /\ UNCHANGED <<active_agents, agent, events, last>>
         /\ UNCHANGED ws_vars
    ELSE /\ UNCHANGED <<proc, cancels>>
         /\ IF byDispose
            THEN DisposeTail(a, agent, events)
            ELSE /\ last' = Returned("cancel_task", a, r, "false")
                 /\ UNCHANGED <<active_agents, agent, events, cancel_ok>>
                 /\ UNCHANGED ws_vars

CancelTask(a, r) ==
    /\ \/ /\ a \notin active_agents
          /\ last' = Returned("cancel_task", a, r, "not_found")
          /\ UNCHANGED <<active_agents, agent, events, proc, cancels, cancel_ok>>
          /\ UNCHANGED ws_vars
       \/ /\ a \in active_agents
          /\ agent[a].current_run_id # r
          /\ last' = Returned("cancel_task", a, r, "run_not_found")
          /\ UNCHANGED <<active_agents, agent, events, proc, cancels, cancel_ok>>
          /\ UNCHANGED ws_vars
       \/ /\ a \in active_agents
          /\ agent[a].current_run_id = r
          /\ CancelCall(a, r, FALSE)
    /\ UNCHANGED <<uuids, next_run, starting, monitor, expired, env, side_vars>>

\* process.wait() has returned, or the 5 seconds are over: what the resumed
\* cancel_task does to the adapter and the workspace.
CancelResumeCall(c) ==
    /\ c \in cancels
    /\ \/ /\ proc[c.p].st = "exited"
          /\ cancels' = cancels \ {c}
          /\ UNCHANGED proc
          /\ IF c.dispose
             THEN DisposeTail(c.agent,
                              [agent EXCEPT ![c.agent] = Cancelled(@)],
                              [events EXCEPT ![c.agent] = CancelEvents(@, c.run)])
             ELSE /\ agent' = [agent EXCEPT ![c.agent] = Cancelled(@)]
                  /\ events' = [events EXCEPT ![c.agent] = CancelEvents(@, c.run)]
                  /\ cancel_ok' = cancel_ok \cup {c.agent}
                  /\ last' = Returned("cancel_task", c.agent, c.run, "true")
                  /\ UNCHANGED active_agents
                  /\ UNCHANGED ws_vars
       \/ /\ c.pc = "wait"
          /\ proc[c.p].st # "exited"
          /\ LET kp == agent[c.agent].current_process IN
             /\ proc' = [proc EXCEPT ![kp].sig =
                           IF proc[kp].st = "running" THEN "kill" ELSE @]
             /\ cancels' = (cancels \ {c}) \cup {[c EXCEPT !.pc = "killwait", !.p = kp]}
          /\ UNCHANGED <<active_agents, agent, events, cancel_ok, last>>
          /\ UNCHANGED ws_vars
       \* kill() on a process whose transport is closed raises
       \* ProcessLookupError; the except clause returns False.
       \/ /\ c.pc = "wait"
          /\ proc[c.p].st # "exited"
          /\ proc[agent[c.agent].current_process].st = "exited"
          /\ cancels' = cancels \ {c}
          /\ UNCHANGED proc
          /\ IF c.dispose
             THEN DisposeTail(c.agent, agent, events)
             ELSE /\ last' = Returned("cancel_task", c.agent, c.run, "false")
                  /\ UNCHANGED <<active_agents, agent, events, cancel_ok>>
                  /\ UNCHANGED ws_vars
    /\ UNCHANGED <<uuids, next_run, starting, monitor, expired>>

CancelResume(c) ==
    /\ CancelResumeCall(c)
    /\ UNCHANGED <<env, side_vars>>

\* The lookup taken to succeed for every id create_agent ever returned.
FoundEverCreated(a) == a \in uuids

\* agent = self.active_agents.get(agent_id); `if not agent` is the negation.
Found(a) == a \in active_agents

\* dispose_agent(a) up to its first suspension or its return: what it does
\* to the adapter and the workspace.
DisposeCall(a) ==
    /\ \/ /\ ~Found(a)
          /\ last' = Returned("dispose_agent", a, NoRun, "not_found")
          /\ UNCHANGED <<active_agents, agent, events, proc, cancels, cancel_ok>>
          /\ UNCHANGED ws_vars
       \/ /\ Found(a)
          /\ IF agent[a].current_run_id # NoRun
             THEN CancelCall(a, agent[a].current_run_id, TRUE)
             ELSE DisposeTail(a, agent, events) /\ UNCHANGED <<proc, cancels>>
    /\ UNCHANGED <<uuids, next_run, starting, monitor, expired>>

DisposeAgent(a) ==
    /\ DisposeCall(a)
    /\ UNCHANGED <<env, side_vars>>

\* ----------------------------------------------------- _cleanup_background

\* The zombie check without its status test.
IsZombieAnyStatus(a) ==
    /\ agent[a].current_process # NoRun
    /\ Returncode(agent[a].current_process) # "None"

\* Zombie check of one pass: Running with a reaped subprocess.
IsZombie(a) ==
    /\ agent[a].current_process # NoRun
    /\ Returncode(agent[a].current_process) # "None"
    /\ agent[a].status = "running"

\* One pass of the loop body: cleanup_orphaned_sandboxes, then the zombie
\* check over the active agents.  _secure_rmtree swallows its failures, so
\* any part of the eligible directories may stay.
CleanupBackground ==
    /\ \E removed \in SUBSET SweepEligible(dirs, old_dirs, active_sandboxes) :
         /\ dirs' = dirs \ removed
         /\ old_dirs' = old_dirs \ removed
    /\ agent' = [a \in AgentIds |->
                   IF a \in active_agents /\ IsZombie(a)
                   THEN [agent[a] EXCEPT !.status = "error",
                                         !.error_message = "zombie",
                                         !.current_run_id = NoRun]
                   ELSE agent[a]]
    /\ UNCHANGED <<active_agents, events, uuids, next_run, proc, starting,
                   monitor, cancels, expired, cancel_ok, last>>
    /\ UNCHANGED <<active_sandboxes, env, side_vars>>

\* A day passes without a write to the sandbox's top directory.
Age(n) ==
    /\ env.clock
    /\ n \in dirs \ old_dirs
    /\ old_dirs' = old_dirs \cup {n}
    /\ UNCHANGED <<adapter_vars, active_sandboxes, dirs, env, side_vars>>

Next ==
    \/ CreateAgent
    \/ \E a \in AgentIds : RunTask(a)
    \/ \E s \in starting : RunTaskResume(s)
    \/ \E p \in Runs : ProcWrite(p)
    \/ \E p \in Runs : ProcExit(p)
    \/ \E p \in Runs : ProcReap(p)
    \/ \E p \in Runs : TimerExpire(p)
    \/ \E r \in Runs : MonitorStart(r)
    \/ \E r \in Runs : MonitorRead(r)
    \/ \E r \in Runs : MonitorDrain(r)
    \/ \E a \in AgentIds, r \in Runs : CancelTask(a, r)
    \/ \E c \in cancels : CancelResume(c)
    \/ \E a \in AgentIds : DisposeAgent(a)
    \/ CleanupBackground
    \/ \E n \in dirs : Age(n)

Spec == Init /\ [][Next]_vars

\* The event loop runs every task that is ready: a resumed run_task, the
\* monitors, a resumed cancel_task, the child watcher's callback and the
\* periodic cleanup pass are never postponed for ever.  Client calls, the
\* children's own progress and the passing of time carry no such promise.
Fairness ==
    /\ WF_vars(\E s \in starting : RunTaskResume(s))
    /\ WF_vars(\E r \in Runs : MonitorStart(r))
    /\ WF_vars(\E r \in Runs : MonitorRead(r))
    /\ WF_vars(\E r \in Runs : MonitorDrain(r))
    /\ WF_vars(\E c \in cancels : CancelResume(c))
    /\ WF_vars(\E p \in Runs : ProcReap(p))
    /\ WF_vars(CleanupBackground)

FairSpec == Spec /\ Fairness

\* Overlapping run_task calls on one agent with a cancellation among them.
OverlapScenario ==
    [agents |-> 1, runs |-> MaxRuns, lines |-> 0, cancels |-> MaxCancels,
     clock |-> FALSE, trace |-> FALSE, requests |-> {NoTools}]

OverlapInit ==
    /\ env = OverlapScenario
    /\ Constructed

\* The steps of a client that starts runs and cancels them, of the
\* children and of the event loop's tasks; the agent is not disposed and no
\* cleanup pass runs.
OverlapNext ==
    \/ CreateAgent
    \/ \E a \in AgentIds : RunTask(a)
    \/ \E s \in starting : RunTaskResume(s)
    \/ \E p \in Runs : ProcExit(p)
    \/ \E p \in Runs : ProcReap(p)
    \/ \E r \in Runs : MonitorStart(r)
    \/ \E r \in Runs : MonitorRead(r)
    \/ \E r \in Runs : MonitorDrain(r)
    \/ \E a \in AgentIds, r \in Runs : CancelTask(a, r)
    \/ \E c \in cancels : CancelResume(c)

SpecOverlap == OverlapInit /\ [][OverlapNext]_vars


\* ============================================================ validate_path

\* The file system validate_path sees: base_path holds the sandboxes of two
\* agents, one allow-prefix is configured, and one sandbox contains a
\* symbolic link that leaves it.
base_path == <<"base">>
allowed_paths == {<<"allowed">>}
SandboxOf(a) == base_path \o <<a>>
Symlinks == [l \in {<<"base", "agent_a", "link">>} |-> <<"etc">>]
Components == {"base", "agent_a", "agent_b", "allowed", "etc", "link", "f", ".."}
PathAgents == {"agent_a", "agent_b"}
Paths == UNION {[1..n -> Components] : n \in 1..MaxPathLen}

\* Path(path).resolve() on an absolute path: '..' drops the last component
\* (the root is its own parent), and a prefix that is a symbolic link is
\* replaced by its target.
RECURSIVE ResolveFrom(_, _)
ResolveFrom(cur, rest) ==
    IF rest = <<>> THEN cur
    ELSE LET c == Head(rest)
             nxt == IF c = ".."
                    THEN IF cur = <<>> THEN <<>> ELSE SubSeq(cur, 1, Len(cur) - 1)
                    ELSE Append(cur, c)
             tgt == IF nxt \in DOMAIN Symlinks THEN Symlinks[nxt] ELSE nxt
         IN ResolveFrom(tgt, Tail(rest))

Resolve(path) == ResolveFrom(<<>>, path)

\* PurePath.is_relative_to
IsRelativeTo(path, other) ==
    Len(path) >= Len(other) /\ SubSeq(path, 1, Len(other)) = other

\* The last check of validate_path: which directory the resolved path has
\* to lie under when no allow-prefix matches.
SandboxCheck(resolved) == IsRelativeTo(resolved, base_path)

\* DefaultWorkspaceManager.validate_path(path).  It takes no agent.
ValidatePath(path) ==
    \/ \E allowed \in allowed_paths : IsRelativeTo(Resolve(path), allowed)
    \/ SandboxCheck(Resolve(path))

PathInit ==
    /\ Init
    /\ env.trace

\* Agent a attempts path p; the manager validates it.
ValidateCall ==
    /\ \E p \in Paths, a \in PathAgents :
         /\ vp_path' = p
         /\ vp_agent' = a
         /\ vp_result' = ValidatePath(p)
    /\ UNCHANGED <<env, adapter_vars, ws_vars, pol_vars, req_vars, reg_vars, prov_vars, sbx_vars, out_vars, shut_vars, ext_vars>>

PathNext == ValidateCall

SpecPath == PathInit /\ [][PathNext]_vars


\* =============================================== validate_command_execution

\* A command is the sequence of its whitespace-separated words.
Words == {"sudo", "SUDO", "rm", "-rf", "/", "ls"}
Commands == UNION {[1..n -> Words] : n \in 1..MaxCmdLen}

\* str.lower(), word by word.
LowerWord(w) == IF w = "SUDO" THEN "sudo" ELSE w
Lower(command) == [i \in DOMAIN command |-> LowerWord(command[i])]

\* Entries of dangerous_patterns, each as the run of words it matches:
\* r"\bsudo\b" and r"rm\s+(-rf?|--recursive)\s+/".
dangerous_patterns == {<<"sudo">>, <<"rm", "-rf", "/">>}
\* Entries of simple_dangerous: "rm -rf /".
simple_dangerous == {<<"rm", "-rf", "/">>}

\* re.search(pattern, text) / `pattern in text`: the words of pattern occur
\* in text, one after the other.
Search(pattern, text) ==
    \E i \in 1..Len(text) :
        /\ i + Len(pattern) - 1 <= Len(text)
        /\ SubSeq(text, i, i + Len(pattern) - 1) = pattern

\* re.search(pattern, text, re.IGNORECASE)
SearchIgnoreCase(pattern, text) == Search(pattern, Lower(text))

\* A local name that has no value yet.
Unbound == <<"unbound">>

\* The value of the local command_lower when the pattern loop reads it:
\* the loop (line 468) comes before the assignment (line 473).
CommandLowerInLoop(command) == Unbound

\* DefaultSecurityPolicy.validate_command_execution(command, agent_id):
\* what the call returns, or the exception it raises.
ValidateCommandExecution(command) ==
    LET in_loop == CommandLowerInLoop(command)
        command_lower == Lower(command)
    IN IF dangerous_patterns # {} /\ in_loop = Unbound
       THEN "UnboundLocalError"
       ELSE IF \E pattern \in dangerous_patterns :
                   SearchIgnoreCase(pattern, in_loop)
       THEN "False"
       ELSE IF \E dangerous \in simple_dangerous :
                   Search(dangerous, command_lower)
       THEN "False"
       ELSE "True"

\* DefaultSecurityPolicy.allowed_tools as services.py configures it, and
\* AgentConfig.allowed_tools.
allowed_tools == {"Read", "Edit", "Bash", "Write"}
config_allowed_tools == {"Read", "Edit", "Bash"}

\* DefaultSecurityPolicy.validate_tool_access(tool, agent_id)
ValidateToolAccess(tool) == tool \in allowed_tools

\* TaskOptions.merge_with_config: tools = self.tools or config.allowed_tools
MergedTools(tools) == IF tools = NoTools THEN config_allowed_tools ELSE tools

\* An agent's command is put to the policy.
ValidateCommandCall ==
    /\ \E c \in Commands :
         /\ pol_command' = c
         /\ pol_result' = ValidateCommandExecution(c)
    /\ UNCHANGED <<env, adapter_vars, ws_vars, vp_vars, req_vars, reg_vars, prov_vars, sbx_vars, out_vars, shut_vars, ext_vars>>

PolicyInit ==
    /\ Init
    /\ env.trace

PolicyNext == ValidateCommandCall

SpecPolicy == PolicyInit /\ [][PolicyNext]_vars


\* ======================================================== AIProviderManager
\* (libs/ai/provider_interface.py; the router api/routers/ai_providers.py
\* makes the calls).  The manager runs on the same kind of event loop: an
\* action is one stretch between awaits on a provider, or between a yield
\* of the stream generator and the consumer's next request.

\* self._providers.get(kind) is not None
Registered(k) == \E i \in DOMAIN entries : entries[i] = k
\* len(self._providers)
Used == Cardinality({i \in DOMAIN entries : entries[i] # Dummy})

\* The check of execute_task / stream_task without its second half.
UsableIfRegistered(k) == Registered(k)
\* The two checks of execute_task / stream_task (lines 193, 202 and 230,
\* 237): the provider exists and is initialised.
Usable(k) == Registered(k) /\ initialized[k]

\* A finally clause that leaves the entry.
ReleaseNever(live, t) == live
\* self._active_tasks.pop(task_id, None) of the finally clauses.
Release(live, t) == live \ {t}

\* AIProviderManager.register_provider, called by the router's POST
\* /register with a new, uninitialised provider object.
RegisterProvider(k) ==
    /\ IF Registered(k)
       THEN entries' = entries
       ELSE /\ Len(entries) < MaxEntries
            /\ entries' = Append(entries, k)
    /\ initialized' = [initialized EXCEPT ![k] = FALSE]
    /\ UNCHANGED <<active_tasks, task, reg_last, shutdown>>
    /\ UNCHANGED <<env, adapter_vars, ws_vars, vp_vars, pol_vars, req_vars, prov_vars, sbx_vars, out_vars, shut_vars, ext_vars>>

\* provider.initialize() succeeding (router line 146, initialize_all).
InitializeProvider(k) ==
    /\ Registered(k)
    /\ ~initialized[k]
    /\ initialized' = [initialized EXCEPT ![k] = TRUE]
    /\ UNCHANGED <<entries, active_tasks, task, reg_last, shutdown>>
    /\ UNCHANGED <<env, adapter_vars, ws_vars, vp_vars, pol_vars, req_vars, prov_vars, sbx_vars, out_vars, shut_vars, ext_vars>>

\* The slots without those in seq that hold no key.
RECURSIVE Compact(_)
Compact(seq) ==
    IF seq = <<>> THEN <<>>
    ELSE IF Head(seq) = Dummy THEN Compact(Tail(seq))
    ELSE <<Head(seq)>> \o Compact(Tail(seq))

\* The router's DELETE /{provider_type}: self._providers.pop(kind).  The
\* emptied slot matters only to an iterator that is in use; without one the
\* dict is kept as the sequence of its keys.
UnregisterProvider(k) ==
    /\ Registered(k)
    /\ LET popped == [i \in DOMAIN entries |->
                        IF entries[i] = k THEN Dummy ELSE entries[i]]
       IN entries' = IF shutdown.pc = "awaiting" THEN popped ELSE Compact(popped)
    /\ initialized' = [initialized EXCEPT ![k] = FALSE]
    /\ UNCHANGED <<active_tasks, task, reg_last, shutdown>>
    /\ UNCHANGED <<env, adapter_vars, ws_vars, vp_vars, pol_vars, req_vars, prov_vars, sbx_vars, out_vars, shut_vars, ext_vars>>

\* execute_task(task) up to `await provider.execute_task(task)`, or to the
\* return of the failed response.
ExecuteTask(t, k) ==
    /\ task[t].op = "none"
    /\ IF Usable(k)
       THEN /\ active_tasks' = active_tasks \cup {t}
            /\ task' = [task EXCEPT ![t] =
                          [NoTask EXCEPT !.op = "execute", !.kind = k,
                                         !.pc = "in_provider", !.invoked = TRUE]]
       ELSE /\ active_tasks' = active_tasks
            /\ task' = [task EXCEPT ![t] =
                          [NoTask EXCEPT !.op = "execute", !.kind = k,
                                         !.pc = "done", !.rejected = TRUE,
                                         !.result = "failed"]]
    /\ UNCHANGED <<entries, initialized, reg_last, shutdown>>
    /\ UNCHANGED <<env, adapter_vars, ws_vars, vp_vars, pol_vars, req_vars, prov_vars, sbx_vars, out_vars, shut_vars, ext_vars>>

\* The await of execute_task is over: the provider returned a response,
\* raised an exception (the manager returns a failed response), or the
\* calling task was cancelled (CancelledError passes through).  The finally
\* clause runs in each case.
ExecuteReturn(t) ==
    /\ task[t].op = "execute"
    /\ task[t].pc = "in_provider"
    /\ \E how \in {"completed", "failed", "exception", "cancelled_error"} :
         task' = [task EXCEPT ![t].pc = "done",
                              ![t].result = IF how = "exception" THEN "failed"
                                            ELSE how]
    /\ active_tasks' = Release(active_tasks, t)
    /\ UNCHANGED <<entries, initialized, reg_last, shutdown>>
    /\ UNCHANGED <<env, adapter_vars, ws_vars, vp_vars, pol_vars, req_vars, prov_vars, sbx_vars, out_vars, shut_vars, ext_vars>>

\* The consumer's first request to the generator stream_task(task): the
\* body runs to the yield of the failure chunk, or to the await on the
\* provider's stream.
StreamTask(t, k) ==
    /\ task[t].op = "none"
    /\ IF Usable(k)
       THEN /\ active_tasks' = active_tasks \cup {t}
            /\ task' = [task EXCEPT ![t] =
                          [NoTask EXCEPT !.op = "stream", !.kind = k,
                                         !.pc = "in_provider", !.invoked = TRUE]]
       ELSE /\ active_tasks' = active_tasks
            /\ task' = [task EXCEPT ![t] =
                          [NoTask EXCEPT !.op = "stream", !.kind = k,
                                         !.pc = "yielded_reject",
                                         !.rejected = TRUE,
                                         !.chunks = 1, !.fails = 1]]
    /\ UNCHANGED <<entries, initialized, reg_last, shutdown>>
    /\ UNCHANGED <<env, adapter_vars, ws_vars, vp_vars, pol_vars, req_vars, prov_vars, sbx_vars, out_vars, shut_vars, ext_vars>>

\* The provider's stream answers: a chunk (the manager yields it), the end
\* (the finally clause runs and the generator ends), or an exception (the
\* manager yields a failure chunk from the except clause); or the consuming
\* task is cancelled while the manager waits.
StreamProviderStep(t) ==
    /\ task[t].op = "stream"
    /\ task[t].pc = "in_provider"
    /\ \/ /\ task[t].chunks - task[t].fails < MaxChunks
          /\ task' = [task EXCEPT ![t].pc = "yielded", ![t].chunks = @ + 1]
          /\ UNCHANGED active_tasks
       \/ /\ task' = [task EXCEPT ![t].pc = "done", ![t].result = "exhausted"]
          /\ active_tasks' = Release(active_tasks, t)
       \/ /\ task' = [task EXCEPT ![t].pc = "yielded_error",
                                  ![t].chunks = @ + 1, ![t].fails = @ + 1]
          /\ UNCHANGED active_tasks
       \/ /\ task' = [task EXCEPT ![t].pc = "done",
                                  ![t].result = "cancelled_error"]
          /\ active_tasks' = Release(active_tasks, t)
    /\ UNCHANGED <<entries, initialized, reg_last, shutdown>>
    /\ UNCHANGED <<env, adapter_vars, ws_vars, vp_vars, pol_vars, req_vars, prov_vars, sbx_vars, out_vars, shut_vars, ext_vars>>

\* The consumer asks for the next chunk.
StreamResume(t) ==
    /\ task[t].op = "stream"
    /\ \/ /\ task[t].pc = "yielded"
          /\ task' = [task EXCEPT ![t].pc = "in_provider"]
          /\ UNCHANGED active_tasks
       \/ /\ task[t].pc = "yielded_error"
          /\ task' = [task EXCEPT ![t].pc = "done", ![t].result = "failed"]
          /\ active_tasks' = Release(active_tasks, t)
       \/ /\ task[t].pc = "yielded_reject"
          /\ task' = [task EXCEPT ![t].pc = "done", ![t].result = "failed"]
          /\ UNCHANGED active_tasks
    /\ UNCHANGED <<entries, initialized, reg_last, shutdown>>
    /\ UNCHANGED <<env, adapter_vars, ws_vars, vp_vars, pol_vars, req_vars, prov_vars, sbx_vars, out_vars, shut_vars, ext_vars>>

\* The consumer closes the generator early (aclose(), or the event loop's
\* finaliser once the consumer dropped it): GeneratorExit is raised at the
\* yield the generator is suspended in.
StreamClose(t) ==
    /\ task[t].op = "stream"
    /\ \/ /\ task[t].pc \in {"yielded", "yielded_error"}
          /\ active_tasks' = Release(active_tasks, t)
       \/ /\ task[t].pc = "yielded_reject"
          /\ UNCHANGED active_tasks
    /\ task' = [task EXCEPT ![t].pc = "done", ![t].result = "closed"]
    /\ UNCHANGED <<entries, initialized, reg_last, shutdown>>
    /\ UNCHANGED <<env, adapter_vars, ws_vars, vp_vars, pol_vars, req_vars, prov_vars, sbx_vars, out_vars, shut_vars, ext_vars>>


\* A manager that reports success whatever the provider answered.
CancelResultTrue(provider_result) == TRUE
\* What cancel_task hands back of the provider's answer (line 267).
CancelResult(provider_result) == provider_result

\* AIProviderManager.cancel_task(task_id).  The provider's cancel_task is
\* awaited within the call; its answer is the provider's business.
ManagerCancelTask(t) ==
    /\ IF t \notin active_tasks \/ ~Registered(task[t].kind)
       THEN reg_last' = [task |-> t, live |-> t \in active_tasks,
                         provider |-> "none", provider_result |-> FALSE,
                         res |-> FALSE]
       ELSE \E r \in BOOLEAN :
              reg_last' = [task |-> t, live |-> TRUE, provider |-> task[t].kind,
                           provider_result |-> r, res |-> CancelResult(r)]
    /\ UNCHANGED <<entries, initialized, active_tasks, task, shutdown>>
    /\ UNCHANGED <<env, adapter_vars, ws_vars, vp_vars, pol_vars, req_vars, prov_vars, sbx_vars, out_vars, shut_vars, ext_vars>>

\* next() on the iterator of self._providers.values(): RuntimeError when
\* the dict has changed size since the iterator was made, else the value
\* in the next slot that holds one, else StopIteration.
DictNext(pos, di_used) ==
    LET full == {i \in pos..Len(entries) : entries[i] # Dummy} IN
    IF Used # di_used THEN [kind |-> "RuntimeError", pos |-> pos]
    ELSE IF full = {} THEN [kind |-> "StopIteration", pos |-> pos]
    ELSE LET i == CHOOSE j \in full : \A m \in full : j <= m
         IN [kind |-> entries[i], pos |-> i + 1]

\* One turn of cleanup_all's loop: take the next provider and call its
\* cleanup, up to the point where that call waits.
CleanupLoop(sd) ==
    LET nx == DictNext(sd.pos, sd.di_used) IN
    IF nx.kind = "RuntimeError" THEN [sd EXCEPT !.pc = "raised", !.cur = "none"]
    ELSE IF nx.kind = "StopIteration" THEN [sd EXCEPT !.pc = "done", !.cur = "none"]
    ELSE [sd EXCEPT !.pc = "awaiting", !.pos = nx.pos, !.cur = nx.kind,
                    !.cleaned = [@ EXCEPT ![nx.kind] = @ + 1]]

\* cleanup_all() is called: the iterator is made and the loop entered.
CleanupAll ==
    /\ shutdown.pc = "idle"
    /\ shutdown' = CleanupLoop([NoShutdown EXCEPT
                                   !.di_used = Used,
                                   !.at_start = {k \in Kinds : Registered(k)}])
    /\ UNCHANGED <<entries, initialized, active_tasks, task, reg_last>>
    /\ UNCHANGED <<env, adapter_vars, ws_vars, vp_vars, pol_vars, req_vars, prov_vars, sbx_vars, out_vars, shut_vars, ext_vars>>

\* The awaited provider.cleanup() is over, by return or by an exception
\* that the except clause absorbs; the loop goes on.
CleanupAllResume ==
    /\ shutdown.pc = "awaiting"
    /\ \E raises \in BOOLEAN :
         shutdown' = CleanupLoop(
            [shutdown EXCEPT !.raised = IF raises THEN @ \cup {shutdown.cur}
                                        ELSE @])
    /\ UNCHANGED <<entries, initialized, active_tasks, task, reg_last>>
    /\ UNCHANGED <<env, adapter_vars, ws_vars, vp_vars, pol_vars, req_vars, prov_vars, sbx_vars, out_vars, shut_vars, ext_vars>>

RegistryInit ==
    /\ Init
    /\ env.trace

\* Registration and the dispatch of tasks.
RegistryNext ==
    \/ \E k \in Kinds : RegisterProvider(k)
    \/ \E k \in Kinds : InitializeProvider(k)
    \/ \E k \in Kinds : UnregisterProvider(k)
    \/ \E t \in TaskIds, k \in Kinds : ExecuteTask(t, k)
    \/ \E t \in TaskIds : ExecuteReturn(t)
    \/ \E t \in TaskIds, k \in Kinds : StreamTask(t, k)
    \/ \E t \in TaskIds : StreamProviderStep(t)
    \/ \E t \in TaskIds : StreamResume(t)
    \/ \E t \in TaskIds : StreamClose(t)
    \/ \E t \in TaskIds : ManagerCancelTask(t)

SpecRegistry == RegistryInit /\ [][RegistryNext]_vars

\* Registration and the shutdown of the providers.
ShutdownNext ==
    \/ \E k \in Kinds : RegisterProvider(k)
    \/ \E k \in Kinds : UnregisterProvider(k)
    \/ CleanupAll
    \/ CleanupAllResume

SpecShutdown == RegistryInit /\ [][ShutdownNext]_vars

\* ------------------------------------------------------------- providers
\* ClaudeCodeProvider runs a subprocess per task; OpenAIProvider sends one
\* HTTP request per task.  The calls below are made on the provider itself,
\* with task.workspace_path set and, for OpenAIProvider, an open session.

\* The awaits at which an execute_task / stream_task can be suspended.
InFlightPcs == {"spawning", "communicate", "terminated", "reading", "request"}
Flying(t) == ptask[t].pc \in InFlightPcs

\* asyncio.TimeoutError is the builtin TimeoutError from Python 3.11 on and a
\* different class before; `except TimeoutError` catches it only in the former.
TimeoutIsBuiltin == BOOLEAN

\* The body of every provider action: the framing of all other variables.
ProviderFrame ==
    UNCHANGED <<env, adapter_vars, ws_vars, vp_vars, pol_vars, req_vars, reg_vars, sbx_vars, out_vars, shut_vars, ext_vars>>

\* execute_task / stream_task up to the first await that suspends:
\* create_subprocess_exec (ClaudeCodeProvider), session.post (OpenAIProvider).
ProviderStart(t, k, op) ==
    /\ ptask[t].pc = "new"
    /\ ptask' = [ptask EXCEPT ![t] = [NoProviderTask EXCEPT
                    !.kind = k, !.op = op,
                    !.pc = IF k = "claude_code" THEN "spawning" ELSE "request"]]
    /\ backend' = IF k = "claude_code" THEN backend
                  ELSE [backend EXCEPT ![t] = [NoBackend EXCEPT !.st = "open"]]
    /\ UNCHANGED <<active_processes, timed_out, pcancels>>
    /\ ProviderFrame

ProviderExecuteTask(t, k) == ProviderStart(t, k, "execute")

ProviderStreamTask(t, k) == ProviderStart(t, k, "stream")

\* create_subprocess_exec returns; the process is stored in _active_processes
\* and the coroutine suspends in communicate() or in readline().
ProviderSpawned(t) ==
    /\ ptask[t].pc = "spawning"
    /\ backend' = [backend EXCEPT ![t] = [NoBackend EXCEPT !.st = "running"]]
    /\ active_processes' = active_processes \cup {t}
    /\ ptask' = [ptask EXCEPT ![t].pc =
                    IF ptask[t].op = "execute" THEN "communicate" ELSE "reading"]
    /\ UNCHANGED <<timed_out, pcancels>>
    /\ ProviderFrame

\* The subprocess exits on its own or on SIGTERM (which it may handle).
ProcessExit(t) ==
    /\ backend[t].st = "running"
    /\ backend[t].sig \in {"none", "term"}
    /\ \E code \in {"0", "1"} \cup (IF backend[t].sig = "term" THEN {"-15"} ELSE {}) :
           backend' = [backend EXCEPT ![t].st = "exited", ![t].code = code]
    /\ UNCHANGED <<ptask, active_processes, timed_out, pcancels>>
    /\ ProviderFrame

\* SIGKILL ends the subprocess.
ProcessKilled(t) ==
    /\ backend[t].st = "running"
    /\ backend[t].sig = "kill"
    /\ backend' = [backend EXCEPT ![t].st = "exited", ![t].code = "-9"]
    /\ UNCHANGED <<ptask, active_processes, timed_out, pcancels>>
    /\ ProviderFrame

\* The HTTP backend answers the request.
BackendAnswer(t) ==
    /\ backend[t].st = "open"
    /\ \E code \in {"200", "500"} :
           backend' = [backend EXCEPT ![t].st = "answered", ![t].code = code]
    /\ UNCHANGED <<ptask, active_processes, timed_out, pcancels>>
    /\ ProviderFrame

\* task.timeout seconds have passed since the call began to wait for its
\* backend.
TaskTimerExpire(t) ==
    /\ ptask[t].pc \in {"communicate", "reading", "request"}
    /\ t \notin timed_out
    /\ timed_out' = timed_out \cup {t}
    /\ UNCHANGED <<ptask, backend, active_processes, pcancels>>
    /\ ProviderFrame

\* The terminal status of a call and the finally clause that pops the process.
ProviderReturn(t, status) ==
    /\ ptask' = [ptask EXCEPT ![t].pc = "done", ![t].status = status]
    /\ active_processes' = active_processes \ {t}

\* execute_task: communicate() returned; COMPLETED on return code 0, else FAILED.
ExecuteCommunicated(t) ==
    /\ ptask[t].pc = "communicate"
    /\ backend[t].st = "exited"
    /\ ProviderReturn(t, IF backend[t].code = "0" THEN "completed" ELSE "failed")
    /\ UNCHANGED <<backend, timed_out, pcancels>>
    /\ ProviderFrame

\* execute_task: wait_for raised asyncio.TimeoutError.  `except TimeoutError`
\* terminates the process and awaits process.wait(); where it does not catch,
\* the outer `except Exception` returns FAILED and the process is left alone.
ExecuteTimeout(t) ==
    /\ ptask[t].pc = "communicate"
    /\ t \in timed_out
    /\ backend[t].st = "running"
    /\ \E builtin \in TimeoutIsBuiltin :
         IF builtin
         THEN /\ backend' = [backend EXCEPT ![t].sig =
                               IF @ = "none" THEN "term" ELSE @]
              /\ ptask' = [ptask EXCEPT ![t].pc = "terminated"]
              /\ UNCHANGED active_processes
         ELSE /\ ProviderReturn(t, "failed")
              /\ UNCHANGED backend
    /\ UNCHANGED <<timed_out, pcancels>>
    /\ ProviderFrame

\* execute_task: process.wait() after terminate() returned; FAILED.
ExecuteTerminatedWait(t) ==
    /\ ptask[t].pc = "terminated"
    /\ backend[t].st = "exited"
    /\ ProviderReturn(t, "failed")
    /\ UNCHANGED <<backend, timed_out, pcancels>>
    /\ ProviderFrame

\* stream_task: readline() returned a line, which is yielded.
StreamRead(t) ==
    /\ ptask[t].pc = "reading"
    /\ backend[t].st = "running"
    /\ ptask[t].chunks < MaxChunks
    /\ ptask' = [ptask EXCEPT ![t].chunks = @ + 1]
    /\ UNCHANGED <<backend, active_processes, timed_out, pcancels>>
    /\ ProviderFrame

\* stream_task: readline() returned b"" and process.wait() returned; a
\* non-zero return code yields one chunk with status "failed".
StreamEof(t) ==
    /\ ptask[t].pc = "reading"
    /\ backend[t].st = "exited"
    /\ ProviderReturn(t, IF backend[t].code = "0" THEN "ended" ELSE "failed")
    /\ UNCHANGED <<backend, timed_out, pcancels>>
    /\ ProviderFrame

\* OpenAIProvider: the response arrived; COMPLETED on HTTP 200, else FAILED.
HttpReturn(t) ==
    /\ ptask[t].pc = "request"
    /\ backend[t].st = "answered"
    /\ ProviderReturn(t, IF backend[t].code = "200" THEN "completed" ELSE "failed")
    /\ backend' = [backend EXCEPT ![t].st = "closed"]
    /\ UNCHANGED <<timed_out, pcancels>>
    /\ ProviderFrame

\* OpenAIProvider: ClientTimeout(total=task.timeout) raised asyncio.TimeoutError.
HttpTimeout(t) ==
    /\ ptask[t].pc = "request"
    /\ t \in timed_out
    /\ backend[t].st = "open"
    /\ ProviderReturn(t, "failed")
    /\ backend' = [backend EXCEPT ![t].st = "closed"]
    /\ UNCHANGED <<timed_out, pcancels>>
    /\ ProviderFrame

\* What OpenAIProvider.cancel_task returns.
HttpCancelResult == "true"

\* cancel_task(task_id) of the task's provider, called while the task's
\* execute_task or stream_task is in flight.
ProviderCancelTask(t) ==
    /\ Flying(t)
    /\ ptask[t].cancel = "none"
    /\ IF ptask[t].kind = "openai_gpt"
       THEN /\ ptask' = [ptask EXCEPT ![t].cancel = HttpCancelResult,
                                      ![t].left_open = (backend[t].st = "open")]
            /\ UNCHANGED <<backend, active_processes, pcancels>>
       ELSE IF t \notin active_processes
       THEN /\ ptask' = [ptask EXCEPT ![t].cancel = "false"]
            /\ UNCHANGED <<backend, active_processes, pcancels>>
       ELSE IF backend[t].st = "running"
       THEN /\ backend' = [backend EXCEPT ![t].sig =
                             IF @ = "none" THEN "term" ELSE @]
            /\ ptask' = [ptask EXCEPT ![t].cancel = "pending"]
            /\ pcancels' = pcancels \cup {[task |-> t, pc |-> "wait"]}
            /\ UNCHANGED active_processes
       ELSE \* terminate() of a process that has exited: ProcessLookupError
            \* once the transport is closed, no effect before that
            /\ \E res \in {"true", "false"} :
                   ptask' = [ptask EXCEPT ![t].cancel = res]
            /\ active_processes' = active_processes \ {t}
            /\ UNCHANGED <<backend, pcancels>>
    /\ UNCHANGED timed_out
    /\ ProviderFrame

\* ClaudeCodeProvider.cancel_task resumes: the process exited, or the five
\* seconds of wait_for passed.
ProviderCancelResume(c) ==
    /\ c \in pcancels
    /\ \/ /\ backend[c.task].st = "exited"
          /\ ptask' = [ptask EXCEPT ![c.task].cancel = "true"]
          /\ pcancels' = pcancels \ {c}
          /\ active_processes' = active_processes \ {c.task}
          /\ UNCHANGED backend
       \/ /\ c.pc = "wait"
          /\ backend[c.task].st = "running"
          /\ \E builtin \in TimeoutIsBuiltin :
               IF builtin
               THEN /\ backend' = [backend EXCEPT ![c.task].sig = "kill"]
                    /\ pcancels' = (pcancels \ {c}) \cup {[c EXCEPT !.pc = "killwait"]}
                    /\ UNCHANGED <<ptask, active_processes>>
               ELSE /\ ptask' = [ptask EXCEPT ![c.task].cancel = "false"]
                    /\ pcancels' = pcancels \ {c}
                    /\ active_processes' = active_processes \ {c.task}
                    /\ UNCHANGED backend
    /\ UNCHANGED timed_out
    /\ ProviderFrame

ProviderInit == Init /\ env.trace

\* The steps of task t that the event loop takes by itself once they are
\* enabled.
ProviderStep(t) ==
    \/ ProviderSpawned(t)
    \/ ProcessKilled(t)
    \/ ExecuteCommunicated(t)
    \/ ExecuteTimeout(t)
    \/ ExecuteTerminatedWait(t)
    \/ StreamEof(t)
    \/ HttpReturn(t)
    \/ HttpTimeout(t)
    \/ \E pc \in {"wait", "killwait"} : ProviderCancelResume([task |-> t, pc |-> pc])

\* Calls, backends and the clock.
ProviderEnvironment ==
    \/ \E t \in TaskIds, k \in Kinds : ProviderExecuteTask(t, k)
    \/ \E t \in TaskIds, k \in Kinds : ProviderStreamTask(t, k)
    \/ \E t \in TaskIds : ProcessExit(t)
    \/ \E t \in TaskIds : BackendAnswer(t)
    \/ \E t \in TaskIds : TaskTimerExpire(t)
    \/ \E t \in TaskIds : StreamRead(t)
    \/ \E t \in TaskIds : ProviderCancelTask(t)

ProviderNext == (\E t \in TaskIds : ProviderStep(t)) \/ ProviderEnvironment

SpecProvider == ProviderInit /\ [][ProviderNext]_vars

\* The event loop runs every ready coroutine, a timer that has expired is
\* delivered and SIGKILL ends a process; nothing makes a backend finish.
FairSpecProvider == SpecProvider /\ \A t \in TaskIds : WF_vars(ProviderStep(t))


\* ============================================ workspace manager, called directly

\* Number of create_sandbox calls per agent id between two cleanups.
MaxSandboxCalls == 2

\* 1024 * 1024, the bytes of the "MB" of get_sandbox_stats.
MiB == 1048576

\* The max_size_mb arguments given to enforce_quota.
QuotaMbs == {1}

\* The bytes the files of a sandbox come to, outside temp/ and under it.
OtherSizes == {0, MiB - 1, MiB, MiB + 1, MiB + 5243}
TempSizes == {0, 1, 5243}

\* Python's round() of the fraction n / d to an integer: to the nearest,
\* a tie to the even neighbour.
RoundHalfEven(n, d) ==
    LET q == n \div d
        r == n % d
    IN IF 2 * r < d THEN q
       ELSE IF 2 * r > d THEN q + 1
       ELSE IF q % 2 = 0 THEN q ELSE q + 1

\* stats["total_size_mb"] = round(total_size / (1024 * 1024), 2), in
\* hundredths of a MB.
TotalSizeMb(total_size) == RoundHalfEven(total_size * 100, MiB)

\* stats["total_size_mb"] > max_size_mb
OverQuota(total_size, max_size_mb) == TotalSizeMb(total_size) > max_size_mb * 100

\* total_size of get_sandbox_stats: every file under the sandbox.
TotalSize(n) == du[n].temp + du[n].other

SandboxFrame ==
    UNCHANGED <<env, adapter_vars, old_dirs, vp_vars, pol_vars, req_vars,
                reg_vars, prov_vars, out_vars, shut_vars, ext_vars>>

\* create_sandbox(agent_id) with a fresh suffix.
CreateSandbox(id, sfx, how) ==
    /\ Len(sb_returned[id]) < MaxSandboxCalls
    /\ dirs' = CreateSandboxDirs(dirs, id, sfx, how)
    /\ active_sandboxes' = CreateSandboxActive(active_sandboxes, id, how)
    /\ sb_returned' = IF how = "ok"
                      THEN [sb_returned EXCEPT ![id] = Append(@, SandboxName(id, sfx))]
                      ELSE sb_returned
    /\ du' = IF how = "ok"
             THEN [du EXCEPT ![SandboxName(id, sfx)].has_temp = TRUE]
             ELSE du
    /\ UNCHANGED quota_last
    /\ SandboxFrame

\* cleanup_sandbox(agent_id): every matching directory is removed.
CleanupSandbox(id) ==
    /\ GlobAgent(dirs, id) # {}
    /\ dirs' = dirs \ GlobAgent(dirs, id)
    /\ active_sandboxes' = CleanupSandboxActive(dirs, active_sandboxes, id,
                                                GlobAgent(dirs, id))
    /\ sb_returned' = [sb_returned EXCEPT ![id] = <<>>]
    /\ du' = [n \in SandboxNames |-> IF n \in GlobAgent(dirs, id) THEN NoUsage ELSE du[n]]
    /\ UNCHANGED quota_last
    /\ SandboxFrame

\* The agent's process writes or removes files in its sandbox.
SandboxWrite(n, temp, other) ==
    /\ n \in dirs
    /\ du[n].has_temp \/ temp = 0
    /\ du' = [du EXCEPT ![n].temp = temp, ![n].other = other]
    /\ du' # du
    /\ UNCHANGED <<dirs, active_sandboxes, sb_returned, quota_last>>
    /\ SandboxFrame

\* enforce_quota(agent_id, max_size_mb) on the directory n that
\* get_sandbox_path returns.  drain = "ok": _secure_rmtree, mkdir and chmod
\* of temp/ ran; "fail": one of them raised.
EnforceQuota(id, n, max_size_mb, drain) ==
    /\ n \in GlobAgent(dirs, id)
    /\ LET before == TotalSize(n)
           call == [NoQuotaCall EXCEPT !.called = TRUE,
                                      !.max_size_mb = max_size_mb,
                                      !.before = before]
       IN IF ~OverQuota(before, max_size_mb)
          THEN /\ drain = "ok"
               /\ quota_last' = [call EXCEPT !.after = before,
                                             !.temp_after = du[n].temp,
                                             !.res = TRUE]
               /\ UNCHANGED du
          ELSE IF ~du[n].has_temp \/ drain = "fail"
          THEN /\ du[n].has_temp \/ drain = "ok"
               /\ quota_last' = [call EXCEPT !.after = before,
                                             !.temp_after = du[n].temp,
                                             !.res = FALSE]
               /\ UNCHANGED du
          ELSE /\ du' = [du EXCEPT ![n].temp = 0]
               /\ quota_last' = [call EXCEPT !.after = du[n].other,
                                             !.temp_after = 0,
                                             !.res = ~OverQuota(du[n].other, max_size_mb)]
    /\ UNCHANGED <<dirs, active_sandboxes, sb_returned>>
    /\ SandboxFrame

SandboxInit == Init /\ env.trace

SandboxNext ==
    \/ \E sfx \in SandboxSuffixes, how \in {"ok", "fail_early", "fail_late"} :
           CreateSandbox(UuidPool[1], sfx, how)
    \/ CleanupSandbox(UuidPool[1])
    \/ \E n \in SandboxNames, temp \in TempSizes, other \in OtherSizes :
           SandboxWrite(n, temp, other)
    \/ \E n \in SandboxNames, mb \in QuotaMbs, drain \in {"ok", "fail"} :
           EnforceQuota(UuidPool[1], n, mb, drain)

SpecSandbox == SandboxInit /\ [][SandboxNext]_vars


\* ===================================================== _process_output_line

\* Number of lines the subprocess writes.
MaxOutLines == 3

\* The lines a subprocess can write, by what json.loads and EventType make
\* of them: a JSON object with a known "type", one without "type", one with
\* a "type" that is no EventType, text that is not JSON, a JSON scalar or
\* array (42, "x", null, [1]), and a line of white space only.
LineKinds == {"object_known", "object_untyped", "object_unknown_type",
              "malformed", "scalar_or_array", "blank"}

\* _process_output_line(agent, line): the type of the event it emits,
\* "none" when it returns without one, "raise" when an exception leaves it.
\* json.loads raises JSONDecodeError on text that is not JSON; data.get
\* raises AttributeError on anything but an object; EventType(...) raises
\* ValueError on an unknown name.  JSONDecodeError and ValueError are caught.
ProcessOutputLine(kind) ==
    CASE kind = "blank"               -> "none"
      [] kind = "object_known"        -> "event"
      [] kind = "object_untyped"      -> "log"
      [] kind = "object_unknown_type" -> "log"
      [] kind = "malformed"           -> "log"
      [] kind = "scalar_or_array"     -> "raise"

\* The queue after the lines from..to of `lines` went through
\* _process_output_line in order, up to the first that raises.
RECURSIVE EmitLines(_, _, _, _)
EmitLines(q, lines, from, to) ==
    IF from > to THEN q
    ELSE LET res == ProcessOutputLine(lines[from]) IN
         IF res = "raise" THEN q
         ELSE EmitLines(IF res = "none" THEN q
                        ELSE Append(q, [type |-> res, line |-> from]),
                        lines, from + 1, to)

OutputFrame ==
    UNCHANGED <<env, adapter_vars, ws_vars, vp_vars, pol_vars, req_vars,
                reg_vars, prov_vars, sbx_vars, shut_vars, ext_vars>>

\* The subprocess writes a line.
OutputWrite(kind) ==
    /\ ~out.exited
    /\ Len(out.lines) < MaxOutLines
    /\ out' = [out EXCEPT !.lines = Append(@, kind)]
    /\ OutputFrame

\* The subprocess exits: end of file follows its last line.
OutputExit ==
    /\ ~out.exited
    /\ out' = [out EXCEPT !.exited = TRUE]
    /\ OutputFrame

\* The monitor's readline returns a line, which goes through
\* _process_output_line; an exception leaves the loop by `break`.
OutputRead ==
    /\ out.pc = "read"
    /\ out.nread < Len(out.lines)
    /\ LET n == out.nread + 1
           res == ProcessOutputLine(out.lines[n])
       IN out' = [out EXCEPT !.nread = n,
                             !.events = EmitLines(@, out.lines, n, n),
                             !.pc = IF res = "raise" THEN "drain" ELSE "read"]
    /\ OutputFrame

\* The monitor's readline returns b"" at end of file, or the loop condition
\* sees the return code: the loop is left.
OutputEof ==
    /\ out.pc = "read"
    /\ out.exited
    /\ out' = [out EXCEPT !.pc = "drain"]
    /\ OutputFrame

\* communicate() returns the rest of stdout once the process has exited; its
\* lines go through _process_output_line until one raises.
OutputDrain ==
    /\ out.pc = "drain"
    /\ out.exited
    /\ out' = [out EXCEPT !.nread = Len(out.lines),
                          !.events = EmitLines(@, out.lines, out.nread + 1,
                                               Len(out.lines)),
                          !.pc = "done"]
    /\ OutputFrame

OutputInit == Init /\ env.trace

OutputNext ==
    \/ \E kind \in LineKinds : OutputWrite(kind)
    \/ OutputExit
    \/ OutputRead
    \/ OutputEof
    \/ OutputDrain

SpecOutput == OutputInit /\ [][OutputNext]_vars


\* ===================================================== HeadlessAdapter.shutdown

\* What a shutdown step leaves alone besides the adapter and the workspace.
ShutdownFrame ==
    UNCHANGED <<env, vp_vars, pol_vars, req_vars, reg_vars, prov_vars, sbx_vars,
                out_vars, ext_vars>>

\* A dispose_agent call of the shutdown loop is suspended in cancel_task.
DisposePending == \E c \in cancels : c.dispose

\* shutdown() up to `await self._cleanup_task`: the flag is set and the
\* sleeping cleanup task is cancelled.
ShutdownBegin ==
    /\ shut.pc = "idle"
    /\ shut' = [shut EXCEPT !.flag = TRUE, !.pc = "cancelling"]
    /\ UNCHANGED <<adapter_vars, ws_vars>>
    /\ ShutdownFrame

\* The cleanup task has ended: agent_ids = list(self.active_agents.keys()).
\* The first dispose_agent call of the loop, if there is one, belongs to the
\* same stretch.
ShutdownLoop(ids) ==
    IF ids = {}
    THEN /\ shut' = [shut EXCEPT !.pc = "done", !.agent_ids = {}]
         /\ UNCHANGED <<adapter_vars, ws_vars>>
    ELSE \E a \in ids :
            /\ shut' = [shut EXCEPT !.pc = "loop", !.agent_ids = ids \ {a}]
            /\ DisposeCall(a)

ShutdownSnapshot ==
    /\ shut.pc = "cancelling"
    /\ ShutdownLoop(active_agents)
    /\ ShutdownFrame

\* The dispose_agent call of the loop has returned: the loop goes on to the
\* next id, or shutdown returns.  Nothing of the adapter is read or written
\* between that return and this step.
ShutdownContinue ==
    /\ shut.pc = "loop"
    /\ ~DisposePending
    /\ ShutdownLoop(shut.agent_ids)
    /\ ShutdownFrame

\* The cancel_task inside the loop's dispose_agent resumes; when it and the
\* rest of dispose_agent are through, the loop goes on in a later step.
ShutdownDisposeResume(c) ==
    /\ shut.pc = "loop"
    /\ c.dispose
    /\ CancelResumeCall(c)
    /\ UNCHANGED shut
    /\ ShutdownFrame

AdapterShutdownInit == Init /\ env.trace

\* Clients go on creating agents and starting runs while shutdown runs.
AdapterShutdownNext ==
    \/ CreateAgent
    \/ \E a \in AgentIds : RunTask(a)
    \/ \E s \in starting : RunTaskResume(s)
    \/ \E p \in Runs : ProcExit(p)
    \/ \E p \in Runs : ProcReap(p)
    \/ \E r \in Runs : MonitorStart(r)
    \/ \E r \in Runs : MonitorRead(r)
    \/ \E r \in Runs : MonitorDrain(r)
    \/ ShutdownBegin
    \/ ShutdownSnapshot
    \/ ShutdownContinue
    \/ \E c \in cancels : ShutdownDisposeResume(c)

SpecAdapterShutdown == AdapterShutdownInit /\ [][AdapterShutdownNext]_vars


\* ====================================================== merge_with_config

\* An Optional value: <<>> is None, <<v>> is the value v.
None == <<>>
Some(v) == <<v>>

\* Python truth of an Optional whose values are falsy when equal to zero:
\* None, 0, 0.0 and the empty list are falsy.
Truthy(o, zero) == o # None /\ o[1] # zero

\* x or y
Or(x, y, zero) == IF Truthy(x, zero) THEN x[1] ELSE y

\* x if x is not None else y
IfNotNone(x, y) == IF x # None THEN x[1] ELSE y

\* The tool lists, timeouts, token ceilings and temperatures (in tenths) a
\* caller can put in a TaskOptions, and the AgentConfig objects that pass
\* __post_init__.
ToolLists == {<<>>, <<"WebFetch">>}
OptionValues == {0, 5}
TaskOptionsSet ==
    [tools : {None} \cup {Some(l) : l \in ToolLists},
     timeout : {None} \cup {Some(v) : v \in OptionValues},
     max_tokens : {None} \cup {Some(v) : v \in OptionValues},
     temperature : {None} \cup {Some(v) : v \in OptionValues},
     resume_session : BOOLEAN]
AgentConfigs ==
    [allowed_tools : {<<"Read", "Edit", "Bash">>},
     timeout : {300}, max_tokens : {4000}, temperature : {0, 10}]

merge_with_config(self, config) ==
    [tools |-> Or(self.tools, config.allowed_tools, <<>>),
     timeout |-> Or(self.timeout, config.timeout, 0),
     max_tokens |-> Or(self.max_tokens, config.max_tokens, 0),
     temperature |-> IfNotNone(self.temperature, config.temperature),
     resume_session |-> self.resume_session]

OtherFrame ==
    UNCHANGED <<env, adapter_vars, ws_vars, vp_vars, pol_vars, req_vars, reg_vars,
                prov_vars, sbx_vars, out_vars, shut_vars>>

MergeFrame == OtherFrame /\ UNCHANGED <<qsize, stream_vars, router_vars, pstream>>

MergeCall ==
    /\ \E self \in TaskOptionsSet, config \in AgentConfigs :
          merge' = [called |-> TRUE, self |-> self, config |-> config,
                    result |-> merge_with_config(self, config)]
    /\ MergeFrame

MergeInit == Init /\ env.trace

MergeNext == MergeCall

SpecMerge == MergeInit /\ [][MergeNext]_vars

\* ============================================= cleanup_sandbox, any ids

\* Agent ids a caller of the workspace manager can pass: any strings, here
\* one that continues another after a dash.
CallerIds == {<<"a1">>, <<"a1", "x">>, <<"a2">>}

\* The directories create_sandbox made for agent id.
SandboxesOf(ds, id) == {n \in ds : \E sfx \in SandboxSuffixes : n = SandboxName(id, sfx)}

CallerFrame ==
    UNCHANGED <<env, adapter_vars, old_dirs, vp_vars, pol_vars, req_vars,
                reg_vars, prov_vars, sbx_vars, out_vars, shut_vars, ext_vars>>

\* create_sandbox(agent_id)
CallerCreateSandbox(id, sfx, how) ==
    /\ SandboxName(id, sfx) \notin dirs
    /\ dirs' = CreateSandboxDirs(dirs, id, sfx, how)
    /\ active_sandboxes' = CreateSandboxActive(active_sandboxes, id, how)
    /\ <<dirs', active_sandboxes'>> # <<dirs, active_sandboxes>>
    /\ CallerFrame

\* cleanup_sandbox(agent_id) when the glob matches something: every match is
\* removed and the id is discarded from the live set.
CallerCleanupSandbox(id) ==
    /\ GlobAgent(dirs, id) # {}
    /\ dirs' = dirs \ GlobAgent(dirs, id)
    /\ active_sandboxes' = CleanupSandboxActive(dirs, active_sandboxes, id,
                                                GlobAgent(dirs, id))
    /\ CallerFrame

CallerInit == Init /\ env.trace

CallerNext ==
    \/ \E id \in CallerIds, sfx \in SandboxSuffixes, how \in {"ok", "fail_late"} :
           CallerCreateSandbox(id, sfx, how)
    \/ \E id \in CallerIds : CallerCleanupSandbox(id)

SpecCallerSandbox == CallerInit /\ [][CallerNext]_vars

\* ========================================================== event_queue

\* asyncio.Queue(): maxsize is 0, which asyncio reads as "no limit".
maxsize == 0

\* asyncio.Queue.full()
Full(n) == IF maxsize <= 0 THEN FALSE ELSE n >= maxsize

QueueFrame == OtherFrame /\ UNCHANGED <<merge, stream_vars, router_vars, pstream>>

\* _emit_event: `await agent.event_queue.put(event)`; put waits while the
\* queue is full and then appends.
EmitEvent ==
    /\ qsize < MaxQueued
    /\ ~Full(qsize)
    /\ qsize' = qsize + 1
    /\ QueueFrame

\* A stream_events iteration takes an event: event_queue.get().
GetEvent ==
    /\ qsize > 0
    /\ qsize' = qsize - 1
    /\ QueueFrame

QueueInit == Init /\ env.trace

QueueNext == EmitEvent \/ GetEvent

SpecQueue == QueueInit /\ [][QueueNext]_vars

\* ======================================================== stream_events

StreamFrame == OtherFrame /\ UNCHANGED <<merge, qsize, router_vars, pstream>>

\* The loop condition without the shutdown test.
LoopConditionNoShutdown == in_map

\* agent_id in self.active_agents and not self._shutdown_event.is_set()
LoopCondition == in_map /\ ~shutdown_event

\* The generator at the top of its loop: into wait_for(get) or out.
LoopTop(it) == [it EXCEPT !.pc = IF LoopCondition THEN "waiting" ELSE "done"]

\* _emit_event puts the next event on the queue.
StreamEmit ==
    /\ emitted < MaxEvents
    /\ emitted' = emitted + 1
    /\ event_queue' = Append(event_queue, emitted + 1)
    /\ UNCHANGED <<in_map, shutdown_event, iters>>
    /\ StreamFrame

\* dispose_agent: del self.active_agents[agent_id]
StreamDispose ==
    /\ in_map
    /\ in_map' = FALSE
    /\ UNCHANGED <<event_queue, emitted, shutdown_event, iters>>
    /\ StreamFrame

\* shutdown: self._shutdown_event.set()
StreamShutdown ==
    /\ ~shutdown_event
    /\ shutdown_event' = TRUE
    /\ UNCHANGED <<event_queue, emitted, in_map, iters>>
    /\ StreamFrame

\* The first __anext__ of stream_events(agent_id): the lookup, then the loop.
StreamOpen(i) ==
    /\ iters[i].pc = "new"
    /\ iters' = [iters EXCEPT ![i] =
                   IF in_map THEN LoopTop(@) ELSE [@ EXCEPT !.pc = "raised"]]
    /\ UNCHANGED <<event_queue, emitted, in_map, shutdown_event>>
    /\ StreamFrame

\* event_queue.get() returns the head of the queue and the generator
\* yields it.
StreamGet(i) ==
    /\ iters[i].pc = "waiting"
    /\ event_queue # <<>>
    /\ event_queue' = Tail(event_queue)
    /\ iters' = [iters EXCEPT ![i].pc = "yielded",
                              ![i].yielded = Append(@, Head(event_queue))]
    /\ UNCHANGED <<emitted, in_map, shutdown_event>>
    /\ StreamFrame

\* wait_for gives up after one second: TimeoutError, `continue`.
StreamTimeout(i) ==
    /\ iters[i].pc = "waiting"
    /\ iters' = [iters EXCEPT ![i] = LoopTop(@)]
    /\ iters' # iters
    /\ UNCHANGED <<event_queue, emitted, in_map, shutdown_event>>
    /\ StreamFrame

\* The consumer asks for the next event: the generator resumes after `yield`.
StreamAfterYield(i) ==
    /\ iters[i].pc = "yielded"
    /\ iters' = [iters EXCEPT ![i] = LoopTop(@)]
    /\ UNCHANGED <<event_queue, emitted, in_map, shutdown_event>>
    /\ StreamFrame

StreamStep(i) == StreamGet(i) \/ StreamTimeout(i) \/ StreamAfterYield(i)

StreamInit == Init /\ env.trace

StreamNext ==
    \/ StreamEmit
    \/ StreamDispose
    \/ StreamShutdown
    \/ \E i \in Iterations : StreamOpen(i)
    \/ \E i \in Iterations : StreamStep(i)

SpecStream == StreamInit /\ [][StreamNext]_vars

\* The event loop runs every ready callback and fires every timer, and the
\* consumer of an iteration keeps asking for the next event.
FairSpecStream == SpecStream /\ \A i \in Iterations : WF_vars(StreamStep(i))

\* ============================================ the router and the manager
\* (api/routers/ai_providers.py on AIProviderManager), with the provider
\* objects told apart.  Registration requests are taken one at a time.

RouterFrame == OtherFrame /\ UNCHANGED <<merge, qsize, stream_vars, pstream>>

\* POST /register up to the first wait.  how = "invalid": validate_config
\* reports errors and the handler raises before it registers anything;
\* "valid": the new object is put in the map and initialize() is awaited.
RouterRegister(k, how) ==
    /\ register.pc # "initializing"
    /\ next_provider <= MaxProviders
    /\ next_provider' = next_provider + 1
    /\ IF how = "invalid"
       THEN /\ register' = [pc |-> "done", kind |-> k, provider |-> next_provider,
                            before |-> providers, outcome |-> "failed"]
            /\ UNCHANGED providers
       ELSE /\ register' = [pc |-> "initializing", kind |-> k,
                            provider |-> next_provider,
                            before |-> providers, outcome |-> "none"]
            /\ providers' = [providers EXCEPT ![k] = next_provider]
    /\ UNCHANGED <<is_initialized, live_task, rcancel>>
    /\ RouterFrame

\* initialize() is over: it returned True, returned False, or raised; the
\* handler answers 200 in the first case and 500 in the others.
RouterRegisterResume(how) ==
    /\ register.pc = "initializing"
    /\ is_initialized' = [is_initialized EXCEPT ![register.provider] = (how = "true")]
    /\ register' = [register EXCEPT !.pc = "done",
                                    !.outcome = IF how = "true" THEN "ok" ELSE "failed"]
    /\ UNCHANGED <<providers, next_provider, live_task, rcancel>>
    /\ RouterFrame

\* DELETE /{provider_type}: cleanup() of the registered object, then the pop.
RouterUnregister(k) ==
    /\ register.pc # "initializing"
    /\ providers[k] # NoProvider
    /\ providers' = [providers EXCEPT ![k] = NoProvider]
    /\ UNCHANGED <<is_initialized, next_provider, register, live_task, rcancel>>
    /\ RouterFrame

\* execute_task / stream_task passes the two checks and enters the
\* provider: the task is in _active_tasks and the object found now runs it.
ManagerTaskStart(k) ==
    /\ ~live_task.live
    /\ providers[k] # NoProvider
    /\ is_initialized[providers[k]]
    /\ live_task' = [live |-> TRUE, kind |-> k, provider |-> providers[k]]
    /\ UNCHANGED <<providers, is_initialized, next_provider, register, rcancel>>
    /\ RouterFrame

\* The provider's call is over; the finally clause pops the task.
ManagerTaskEnd ==
    /\ live_task.live
    /\ live_task' = NoLiveTask
    /\ UNCHANGED <<providers, is_initialized, next_provider, register, rcancel>>
    /\ RouterFrame

\* cancel_task(task_id) of the manager while the task is in _active_tasks:
\* the provider is looked up by the task's kind at the time of the call; with
\* none registered the call returns False, else what that object answers.
ManagerCancel ==
    /\ live_task.live
    /\ LET found == providers[live_task.kind] IN
       \E r \in BOOLEAN :
          /\ found = NoProvider => ~r
          /\ rcancel' = [called |-> TRUE, executing |-> live_task.provider,
                         reached |-> found, res |-> r]
    /\ UNCHANGED <<providers, is_initialized, next_provider, register, live_task>>
    /\ RouterFrame

RouterInit == Init /\ env.trace

RouterNext ==
    \/ \E k \in Kinds, how \in {"invalid", "valid"} : RouterRegister(k, how)
    \/ \E how \in {"true", "false", "raises"} : RouterRegisterResume(how)
    \/ \E k \in Kinds : RouterUnregister(k)
    \/ \E k \in Kinds : ManagerTaskStart(k)
    \/ ManagerTaskEnd
    \/ ManagerCancel

SpecRouter == RouterInit /\ [][RouterNext]_vars

\* ================================================ provider stream_task
\* (OpenAIProvider.stream_task on the lines of the HTTP response,
\* ClaudeCodeProvider.stream_task on the lines of the subprocess).

\* What a line of the chat-completions response can be: a data line with a
\* delta, one whose choice has a finish_reason, `data: [DONE]`, a data line
\* that is not JSON, a data line without choices, a line that is not data.
SseLines == {"delta", "finish", "done", "not_json", "no_choices", "not_data"}

RECURSIVE SeqsUpTo(_, _)
SeqsUpTo(S, n) ==
    IF n = 0 THEN {<<>>}
    ELSE SeqsUpTo(S, n - 1) \cup
         {Append(q, x) : q \in {p \in SeqsUpTo(S, n - 1) : Len(p) = n - 1}, x \in S}

PStreamFrame == OtherFrame /\ UNCHANGED <<merge, qsize, stream_vars, router_vars>>

\* The chunks OpenAIProvider.stream_task yields for one line, and whether
\* it leaves the loop after it.
OpenAiChunks(line) ==
    IF line = "done" THEN <<"completed">>
    ELSE IF line = "finish" THEN <<"completed">>
    ELSE IF line = "delta" THEN <<"running">>
    ELSE <<>>
OpenAiBreaks(line) == line = "done"

\* OpenAIProvider.stream_task up to the response: without a session, or with
\* a status other than 200, one failed chunk and the end; else the loop over
\* the lines the response will carry.
OpenAiStreamStart(lines, how) ==
    /\ pstream.pc = "new"
    /\ pstream' = IF how = "ok"
                  THEN [NoStream EXCEPT !.kind = "openai_gpt", !.pc = "reading",
                                        !.input = lines]
                  ELSE [NoStream EXCEPT !.kind = "openai_gpt", !.pc = "ended",
                                        !.chunks = <<"failed">>]
    /\ PStreamFrame

\* The next line of the response, or its end.
OpenAiStreamLine ==
    /\ pstream.kind = "openai_gpt"
    /\ pstream.pc = "reading"
    /\ pstream' =
         IF pstream.input = <<>> THEN [pstream EXCEPT !.pc = "ended"]
         ELSE LET line == Head(pstream.input) IN
              [pstream EXCEPT !.input = Tail(@),
                              !.chunks = @ \o OpenAiChunks(line),
                              !.pc = IF OpenAiBreaks(line) THEN "ended" ELSE "reading"]
    /\ PStreamFrame

\* The read runs into the timeout or the connection fails: one failed chunk
\* from the except clauses.
OpenAiStreamError ==
    /\ pstream.kind = "openai_gpt"
    /\ pstream.pc = "reading"
    /\ pstream' = [pstream EXCEPT !.pc = "ended", !.chunks = Append(@, "failed")]
    /\ PStreamFrame

\* ClaudeCodeProvider.stream_task up to the loop over the subprocess's
\* lines, or to the failed chunk when the launch raised.
ClaudeStreamStart(lines, rc, how) ==
    /\ pstream.pc = "new"
    /\ pstream' = IF how = "ok"
                  THEN [NoStream EXCEPT !.kind = "claude_code", !.pc = "reading",
                                        !.input = lines, !.returncode = rc]
                  ELSE [NoStream EXCEPT !.kind = "claude_code", !.pc = "ended",
                                        !.chunks = <<"failed">>]
    /\ PStreamFrame

\* The next line of the subprocess is yielded as it is (blank ones are
\* skipped); at the end of the output a failed chunk follows when the return
\* code is not zero.
ClaudeStreamLine ==
    /\ pstream.kind = "claude_code"
    /\ pstream.pc = "reading"
    /\ pstream' =
         IF pstream.input = <<>>
         THEN [pstream EXCEPT !.pc = "ended",
                              !.chunks = IF pstream.returncode # 0
                                         THEN Append(@, "failed") ELSE @]
         ELSE [pstream EXCEPT !.input = Tail(@),
                              !.chunks = IF Head(pstream.input) = "blank" THEN @
                                         ELSE Append(@, "line")]
    /\ PStreamFrame

PStreamInit == Init /\ env.trace

PStreamNext ==
    \/ \E lines \in SeqsUpTo(SseLines, MaxStreamLines), how \in {"ok", "rejected"} :
           OpenAiStreamStart(lines, how)
    \/ OpenAiStreamLine
    \/ OpenAiStreamError
    \/ \E lines \in SeqsUpTo({"json", "blank"}, MaxStreamLines), rc \in {0, 1},
          how \in {"ok", "raised"} : ClaudeStreamStart(lines, rc, how)
    \/ ClaudeStreamLine

SpecProviderStream == PStreamInit /\ [][PStreamNext]_vars

\* ==================================================================== claims

\* The subprocesses launched for agent a that are still running.
LiveRuns(a) == {p \in Runs : proc[p].agent = a /\ Alive(p)}

\* C1: for every agent at most one subprocess launched by run_task is still
\* running at any instant.
C1_AtMostOneLiveRun ==
    \A a \in AgentIds : Cardinality(LiveRuns(a)) <= 1

\* C2: the live-agent map never holds more than max_concurrent records, and
\* a step taken while the count is at the ceiling adds no agent record,
\* allocates no agent id and creates no sandbox directory.
C2_Ceiling ==
    /\ [](Cardinality(active_agents) <= max_concurrent)
    /\ [][Cardinality(active_agents) >= max_concurrent
            => /\ active_agents' \subseteq active_agents
               /\ uuids' = uuids
               /\ dirs' \subseteq dirs
               /\ active_sandboxes' \subseteq active_sandboxes]_vars

\* C2 witness: a create_agent call is refused at the ceiling, with an agent
\* id still unused.
C2_Witness ==
    /\ last = [op |-> "create_agent", agent |-> <<>>, run |-> NoRun,
               res |-> "capacity"]
    /\ Cardinality(active_agents) = max_concurrent
    /\ AgentIds \ uuids # {}

\* Positions of the events of agent a that carry run id r.
EventsOf(a, r) == {i \in 1..Len(events[a]) : events[a][i].run = r}

TerminalsOf(a, r) ==
    {i \in EventsOf(a, r) : events[a][i].type \in {"task_complete", "error"}}

\* Run r was started and nothing is left to act for it: its subprocess is
\* reaped, its monitor has finished, no cancel_task waits on it and it is
\* not the agent's current run.
RunOver(r) ==
    /\ monitor[r].pc = "done"
    /\ proc[r].st = "exited"
    /\ agent[monitor[r].agent].current_run_id # r
    /\ \A c \in cancels : c.run # r
    /\ \A m \in Runs : monitor[m].pc \in {"none", "done"}

\* C3: among the events carrying a run's id at most one is TaskComplete or
\* Error, none follows it, and a run that is over has exactly one.
C3_OneTerminalLast ==
    \A a \in AgentIds : \A r \in Runs :
        /\ Cardinality(TerminalsOf(a, r)) <= 1
        /\ \A i \in TerminalsOf(a, r) : \A j \in EventsOf(a, r) : j <= i
        /\ (RunOver(r) /\ monitor[r].agent = a) => Cardinality(TerminalsOf(a, r)) = 1

\* C4: from the return of a cancel_task that returned True until the next
\* run_task or dispose_agent on the agent, the agent's status is Idle.
C4_CancelledStaysIdle ==
    \A a \in cancel_ok : agent[a].status = "idle"

\* The Disposed event is on the agent's queue: dispose_agent has returned True.
HasDisposed(a) ==
    \E i \in 1..Len(events[a]) :
        events[a][i].type = "status_change" /\ events[a][i].status = "disposed"

\* C5: once dispose_agent(A) has returned, nothing more is put on A's queue.
C5_NoEventAfterDispose ==
    [][\A a \in AgentIds : HasDisposed(a) => events'[a] = events[a]]_vars

\* C6: when dispose_agent(A) has returned, A has no sandbox directory under
\* the base and is in neither the live-agent map nor the live-sandbox set.
C6_DisposeLeavesNothing ==
    (last.op = "dispose_agent" /\ last.res \in {"true", "false"}) =>
        /\ GlobAgent(dirs, last.agent) = {}
        /\ last.agent \notin active_agents
        /\ last.agent \notin active_sandboxes

\* C7: every event that carries run id R or reports the output or exit of
\* R's subprocess, other than TaskStart itself, comes after TaskStart of R.
C7_TaskStartFirst ==
    \A a \in AgentIds : \A i \in 1..Len(events[a]) :
        LET e == events[a][i] IN
        \A r \in Runs :
            ((e.run = r \/ e.src = r) /\ e.type # "task_start") =>
                \E j \in 1..(i - 1) :
                    events[a][j].type = "task_start" /\ events[a][j].run = r

\* C7 witness: a monitor has put an output event and a terminal event of a
\* run on the queue.
C7_Witness ==
    \E a \in AgentIds : \E i, j \in 1..Len(events[a]) :
        /\ i < j
        /\ events[a][i].type = "log" /\ events[a][i].run # NoRun
        /\ events[a][j].type \in {"task_complete", "error"}
        /\ events[a][j].run = events[a][i].run

\* C8: a run whose timer has expired does not stay Running for ever.
C8_TimeoutEndsRun ==
    \A a \in AgentIds : \A p \in Runs :
        (p \in expired /\ agent[a].current_run_id = p
            /\ agent[a].status = "running")
        ~> (agent[a].status # "running")

\* A step of the sweep that removes directories: no call returns, no agent
\* id is allocated, no cancellation moves.
SweepRemoves ==
    /\ dirs' # dirs
    /\ events' = events /\ cancels' = cancels /\ uuids' = uuids /\ last' = last

\* The agent id a sandbox name was built from.
OwnerOf(n) == SubSeq(n, 2, Len(n) - 1)

\* C9: the sweep removes only directories that are older than 24 hours and
\* whose owning agent is not in the live-sandbox set, and it changes neither
\* the live-sandbox set nor the live-agent map.
C9_SweepSparesLive ==
    [][SweepRemoves =>
        /\ \A n \in dirs \ dirs' :
              OwnerOf(n) \notin active_sandboxes /\ n \in old_dirs
        /\ active_sandboxes' = active_sandboxes
        /\ active_agents' = active_agents]_vars

\* C10: the path check accepts a path iff it resolves under the sandbox of
\* the agent that attempts it or under an allow-prefix.
C10_OwnSandboxOrAllowed ==
    vp_agent \in PathAgents =>
        (vp_result <=>
            \/ IsRelativeTo(Resolve(vp_path), SandboxOf(vp_agent))
            \/ \E allowed \in allowed_paths : IsRelativeTo(Resolve(vp_path), allowed))

\* The command matches an entry of the dangerous-pattern set, case ignored.
Dangerous(command) ==
    \E pattern \in dangerous_patterns : Search(pattern, Lower(command))

\* C11: validate_command_execution returns false for every command that
\* matches a dangerous pattern, true for every other command, and raises
\* for no command.
C11_DenyDangerousNeverRaise ==
    pol_command # <<>> =>
        pol_result = (IF Dangerous(pol_command) THEN "False" ELSE "True")

\* The policy denies one of the tools a request asks for.
Denied(tools) == \E tool \in MergedTools(tools) : ~ValidateToolAccess(tool)

\* C12: no subprocess is spawned for a run_task request that the security
\* policy denies.
C12_DeniedNeverSpawned ==
    \A r \in Runs :
        (r < next_run /\ Denied(requested[r])) => proc[r].st = "unborn"

\* A cancel_task(a, r) call returns or raises in this step, for a run r
\* that run_task started on agent a, that is over and that is no longer a's
\* current run.
StaleCancelReturns(a, r) ==
    /\ a \in active_agents
    /\ proc[r].agent = a
    /\ proc[r].st = "exited"
    /\ monitor[r].agent = a
    /\ agent[a].current_run_id # r
    /\ cancels' = cancels
    /\ last' # last
    /\ last'.op = "cancel_task"
    /\ last'.agent = a
    /\ last'.run = r

\* C13: cancel_task(A, R) called when R is no longer A's current run,
\* because R finished or was cancelled, returns false without raising,
\* changes no agent state and enqueues no event.
C13_StaleCancelReturnsFalse ==
    [][\A a \in AgentIds : \A r \in Runs :
         StaleCancelReturns(a, r) =>
             /\ last'.res = "false"
             /\ agent' = agent
             /\ events' = events]_vars

\* The cancel_task calls that return True in this step: process.wait() has
\* returned, the call leaves the set of suspended calls and emits its
\* cancellation event.
CancelReturnsTrue ==
    {c \in cancels \ cancels' :
        /\ Cardinality(cancels') < Cardinality(cancels)
        /\ Len(events'[c.agent]) > Len(events[c.agent])
        /\ events'[c.agent][Len(events[c.agent]) + 1]
              = Event("status_change", c.run, "idle", NoRun)}

\* C14: when cancel_task(A, R) returns true, the subprocess launched for
\* run R has exited.
C14_CancelledRunHasExited ==
    [][\A c \in CancelReturnsTrue : ~Alive(c.run)]_vars

\* An execute or stream of task t is in flight: the manager waits on the
\* provider, or its generator rests at a yield inside the try block.
InFlight(t) == task[t].pc \in {"in_provider", "yielded", "yielded_error"}

\* C15: the live-task map holds a task id only while an execute or stream
\* of that task is in flight; once the call is over, by whatever path, the
\* id is absent.
C15_LiveOnlyInFlight ==
    \A t \in TaskIds :
        /\ t \in active_tasks => InFlight(t)
        /\ task[t].pc = "done" => t \notin active_tasks

\* C15 witness: a stream that was in the live map has been closed early by
\* its consumer.
C15_Witness ==
    \E t \in TaskIds :
        /\ task[t].op = "stream"
        /\ task[t].invoked
        /\ task[t].result = "closed"
        /\ t \notin active_tasks

\* The provider of kind k is missing or not initialised.
NotReady(k) == ~Registered(k) \/ ~initialized[k]

\* Task t is submitted in this step for a provider that is not ready.
SubmittedUnready(t) ==
    /\ task[t].op = "none"
    /\ task'[t].op # "none"
    /\ \E k \in Kinds : task'[t].kind = k /\ NotReady(k)

\* C16: for a task whose provider is not registered or not initialised,
\* execute returns a failed response and stream yields exactly one failure
\* chunk and then ends; the provider is never invoked and the live-task map
\* is left unchanged.
C16_UnreadyRejected ==
    /\ [][\A t \in TaskIds :
            SubmittedUnready(t) =>
                /\ active_tasks' = active_tasks
                /\ task'[t].rejected
                /\ ~task'[t].invoked]_vars
    /\ [](\A t \in TaskIds :
            task[t].rejected =>
                /\ ~task[t].invoked
                /\ task[t].op = "execute" =>
                      task[t].pc = "done" /\ task[t].result = "failed"
                /\ task[t].op = "stream" =>
                      /\ task[t].chunks = 1 /\ task[t].fails = 1
                      /\ task[t].pc \in {"yielded_reject", "done"})

\* C16 witness: a stream for a registered but uninitialised provider has
\* yielded its failure chunk and ended.
C16_Witness ==
    \E t \in TaskIds :
        /\ task[t].op = "stream"
        /\ task[t].rejected
        /\ task[t].pc = "done"
        /\ task[t].result = "failed"
        /\ Registered(task[t].kind)
        /\ ~initialized[task[t].kind]

C20_ShutdownCleansAll ==
    shutdown.pc \in {"done", "raised"} =>
        /\ shutdown.pc = "done"
        /\ \A k \in shutdown.at_start : shutdown.cleaned[k] = 1

\* A cancel_task that returned True for a call in flight.
CancelledInFlight(t) == ptask[t].cancel = "true"

\* C17: a task cancelled through cancel_task while its execute or stream is
\* in flight ends with status "cancelled", for every provider kind, and a
\* cancel of an HTTP-backed provider that returns True has ended the request.
C17_CancelledEndsCancelled ==
    \A t \in TaskIds :
        CancelledInFlight(t) =>
            /\ ~ptask[t].left_open
            /\ ptask[t].pc = "done" => ptask[t].status = "cancelled"

\* C18: once task.timeout has elapsed on a call in flight, the call
\* terminates, whatever the backend does.
C18_TimeoutTerminates ==
    \A t \in TaskIds : (t \in timed_out /\ Flying(t)) ~> (ptask[t].pc = "done")

\* A create_agent call that got past the capacity check and raised: an id
\* was drawn and no agent was stored.
CreateAgentFailed == uuids' # uuids /\ active_agents' = active_agents

\* C21: a create_agent that fails after the capacity check leaves no agent
\* record, no live-sandbox entry and no sandbox directory behind: the maps
\* and the base directory are as before the call.
C21_FailedCreateRollsBack ==
    [][CreateAgentFailed =>
          /\ dirs' = dirs
          /\ active_sandboxes' = active_sandboxes
          /\ agent' = agent]_vars

\* C22: create_sandbox is idempotent per agent id: two calls for the same id
\* return the same path and leave exactly one sandbox directory for the id.
C22_CreateSandboxIdempotent ==
    \A id \in AgentIds :
        Len(sb_returned[id]) = 2 =>
            /\ sb_returned[id][1] = sb_returned[id][2]
            /\ Cardinality(GlobAgent(dirs, id)) = 1

\* The bytes of max_size_mb MB.
QuotaBytes(max_size_mb) == max_size_mb * MiB

\* C23: enforce_quota returns True whenever the sandbox's size is at most the
\* quota; whenever the size exceeds it, by one byte or more, temp/ is emptied,
\* the size is measured again, and False is returned exactly when the new
\* size still exceeds the quota.
C23_QuotaExact ==
    quota_last.called =>
        LET quota == QuotaBytes(quota_last.max_size_mb) IN
        /\ quota_last.before <= quota => quota_last.res
        /\ quota_last.before > quota =>
              /\ quota_last.temp_after = 0
              /\ ~quota_last.res <=> quota_last.after > quota

\* C24: dispose_agent on an id that is not in the live-agent map raises
\* not-found and changes nothing: no agent record, sandbox or live-sandbox
\* entry is touched, no subprocess is signalled and no event is enqueued.
\* This covers the second of two consecutive dispose_agent calls.
C24_UnknownDisposeNotFound ==
    [][\A a \in AgentIds :
          (a \notin active_agents /\ DisposeAgent(a)) =>
              /\ env.trace => last' = [op |-> "dispose_agent", agent |-> a,
                                       run |-> NoRun, res |-> "not_found"]
              /\ UNCHANGED <<active_agents, agent, events, proc, cancels,
                             active_sandboxes, dirs>>]_vars

\* A second dispose_agent of a disposed agent has raised not-found.
C24_Witness ==
    \E a \in AgentIds :
        /\ HasDisposed(a)
        /\ a \notin active_agents
        /\ last = [op |-> "dispose_agent", agent |-> a, run |-> NoRun,
                   res |-> "not_found"]

\* The terminal events the monitors emitted about subprocess p.
OutcomesOf(a, p) ==
    {i \in 1..Len(events[a]) :
        events[a][i].src = p /\ events[a][i].type \in {"task_complete", "error"}}

\* C25: for every run that is not cancelled the monitor's terminal outcome
\* matches the subprocess exit code: TaskComplete for exit code 0, Error for
\* any other, whether end of output is seen before or after the exit status
\* is available.
C25_OutcomeMatchesExit ==
    \A a \in AgentIds, p \in Runs :
        proc[p].sig = "none" =>
            \A i \in OutcomesOf(a, p) :
                events[a][i].type = "task_complete" <=> proc[p].code = "0"

\* This step is the status update of a monitor of agent a.
MonitorFinishes(a) ==
    \E r \in Runs : /\ monitor[r].agent = a
                    /\ monitor[r].pc = "drain"
                    /\ monitor'[r].pc = "done"

\* C26: an agent leaves Running for Idle or for Error only in a step of the
\* run's monitor; no other operation makes either transition.
C26_OnlyMonitorLeavesRunning ==
    [][\A a \in AgentIds :
          (agent[a].status = "running" /\ agent'[a].status \in {"idle", "error"})
              => MonitorFinishes(a)]_vars

\* This step put an Error event on the queue of agent a.
ErrorEventEnqueued(a) ==
    /\ Len(events'[a]) > Len(events[a])
    /\ events'[a][Len(events'[a])].type = "error"

\* C27: whenever an agent's status becomes Error (a non-zero exit seen by the
\* monitor, a failed launch in run_task, the zombie sweep), the error message
\* is recorded on the agent record and an Error event is put on its queue.
C27_ErrorRecordedAndEmitted ==
    [][\A a \in AgentIds :
          (agent[a].status # "error" /\ agent'[a].status = "error") =>
              /\ agent'[a].error_message # "None"
              /\ ErrorEventEnqueued(a)]_vars

\* The events line i of the output produced.
EventsOfLine(i) == {j \in 1..Len(out.events) : out.events[j].line = i}

\* C28: once the monitor is through, every non-empty line of the output has
\* produced exactly one event, and a line that is not a JSON object with a
\* known event type has produced a Log event.
C28_OneEventPerLine ==
    out.pc = "done" =>
        \A i \in 1..Len(out.lines) :
            out.lines[i] # "blank" =>
                /\ Cardinality(EventsOfLine(i)) = 1
                /\ out.lines[i] # "object_known" =>
                      \A j \in EventsOfLine(i) : out.events[j].type = "log"

\* Agent a is live and Running and its subprocess handle reports an exit.
RunningExited(a) ==
    /\ a \in active_agents
    /\ agent[a].status = "running"
    /\ agent[a].current_process # NoRun
    /\ proc[agent[a].current_process].st = "exited"

\* C29: a pass of the zombie sweep sets to Error, with the reason recorded
\* and the current run id cleared, exactly the agents that are Running and
\* whose subprocess has exited, and leaves the status, run id and error
\* message of every other agent as they were.
C29_SweepExactlyZombies ==
    [][CleanupBackground =>
          \A a \in AgentIds :
              IF RunningExited(a)
              THEN /\ agent'[a].status = "error"
                   /\ agent'[a].error_message = "zombie"
                   /\ agent'[a].current_run_id = NoRun
              ELSE /\ agent'[a].status = agent[a].status
                   /\ agent'[a].error_message = agent[a].error_message
                   /\ agent'[a].current_run_id = agent[a].current_run_id]_vars

\* A sweep has found a zombie: a live agent is in Error with the sweep's
\* reason.
C29_Witness ==
    \E a \in AgentIds :
        /\ a \in active_agents
        /\ agent[a].status = "error"
        /\ agent[a].error_message = "zombie"
        /\ agent[a].current_run_id = NoRun

\* create_agent stored agent a at some time: its Created event was emitted.
HasCreated(a) ==
    \E i \in 1..Len(events[a]) :
        events[a][i].type = "status_change" /\ events[a][i].status = "created"

\* C30: after shutdown() has returned the live-agent map is empty, no agent
\* subprocess is running and the sandbox of every agent has been removed,
\* whatever create_agent calls ran during or after the shutdown.
C30_ShutdownLeavesNothing ==
    shut.pc = "done" =>
        /\ active_agents = {}
        /\ \A p \in Runs : ~Alive(p)
        /\ \A a \in AgentIds : HasCreated(a) => GlobAgent(dirs, a) = {}

\* C37: in every state of an agent record current_run_id is set only while
\* the status is Running, and a Running agent has a current_run_id and a
\* subprocess handle.
C37_RunIdIffRunning ==
    \A a \in AgentIds :
        /\ agent[a].current_run_id # NoRun => agent[a].status = "running"
        /\ agent[a].status = "running" =>
              /\ agent[a].current_run_id # NoRun
              /\ agent[a].current_process # NoRun

\* An agent whose run was cancelled and whose monitor then recorded the
\* exit: both writers of the record have acted.
C37_Witness ==
    \E a \in AgentIds :
        /\ agent[a].status = "error"
        /\ agent[a].error_message = "exit"
        /\ agent[a].current_run_id = NoRun
        /\ \E i \in 1..Len(events[a]) :
              events[a][i].type = "status_change" /\ events[a][i].status = "idle"

\* C34: merge_with_config returns the per-run value of tools, timeout,
\* max_tokens and temperature whenever the caller supplied one, an empty tool
\* list and a zero included, the agent-config value only when the per-run
\* value is None, and always the per-run resume_session.
C34_PerRunValueWins ==
    merge.called =>
        /\ merge.result.tools = IfNotNone(merge.self.tools, merge.config.allowed_tools)
        /\ merge.result.timeout = IfNotNone(merge.self.timeout, merge.config.timeout)
        /\ merge.result.max_tokens =
              IfNotNone(merge.self.max_tokens, merge.config.max_tokens)
        /\ merge.result.temperature =
              IfNotNone(merge.self.temperature, merge.config.temperature)
        /\ merge.result.resume_session = merge.self.resume_session

\* C36: cleanup_sandbox(A) removes only directories created for A: for all
\* distinct ids A and B, also when A followed by a dash is a prefix of B, the
\* call leaves B's sandbox directories in place and B in the live set.
C36_CleanupOnlyOwn ==
    [][\A A \in CallerIds :
          CallerCleanupSandbox(A) =>
              \A B \in CallerIds \ {A} :
                  /\ SandboxesOf(dirs', B) = SandboxesOf(dirs, B)
                  /\ B \in active_sandboxes => B \in active_sandboxes']_vars

\* C35: what the monitor of run r does at its end refers to run r: the
\* terminal event carries r as run id (not null, not a later run), the output
\* it has read is that of r's subprocess, and when the agent is already in a
\* later run the monitor leaves its status, run id and handle alone.
C35_MonitorKeepsItsRun ==
    [][\A r \in Runs :
          MonitorDrain(r) =>
              LET a == monitor[r].agent
              IN /\ events'[a][Len(events'[a])].run = r
                 /\ monitor[r].p = r
                 /\ agent[a].current_run_id \notin {NoRun, r} =>
                       agent'[a] = agent[a]]_vars

\* C32: an agent's event queue never holds more events than its bound; a
\* producer that finds it full waits.  The queue of the code has no bound, so
\* the smallest bound allowed, 1024, stands in for it.
C32_QueueBounded == qsize <= (IF maxsize > 0 THEN maxsize ELSE 1024)

\* The iteration is inside its loop.
Iterating(i) == iters[i].pc \in {"waiting", "yielded"}

NoDuplicates(seq) ==
    \A j, k \in 1..Len(seq) : j # k => seq[j] # seq[k]

\* C33: a stream_events iteration ends only when the agent has left the live
\* map or shutdown was requested; once either holds it ends at its next
\* poll; and it yields no event twice.
C33_StreamEndsWhenOver ==
    /\ [](\A i \in Iterations : NoDuplicates(iters[i].yielded))
    /\ [][\A i \in Iterations :
             Iterating(i) /\ iters'[i].pc = "done" => ~in_map \/ shutdown_event]_vars
    /\ \A i \in Iterations :
          (Iterating(i) /\ (~in_map \/ shutdown_event)) ~> iters[i].pc = "done"

\* An iteration that yielded two events and ended after the shutdown request
\* while the agent was still in the map.
C33_Witness ==
    \E i \in Iterations :
        /\ iters[i].pc = "done"
        /\ Len(iters[i].yielded) >= 2
        /\ in_map /\ shutdown_event

\* C38: a cancel of a task that is in the live-task map reaches the provider
\* object that is executing the task, also after the provider of that kind
\* was replaced by a registration or removed by an unregistration.
C38_CancelReachesExecutor ==
    rcancel.called => rcancel.reached = rcancel.executing

\* C39: a registration request that fails leaves the provider map as it was
\* before the request: the new object is not registered and the object
\* registered before under that kind is still there.
C39_FailedRegisterNoChange ==
    (register.pc = "done" /\ register.outcome = "failed") =>
        providers = register.before

\* A chunk that ends a stream: done with status completed, or status failed.
Terminal(chunk) == chunk \in {"completed", "failed"}

\* C31: a provider stream that has ended yielded exactly one terminal chunk,
\* and that chunk is the last one.
C31_OneTerminalChunkLast ==
    pstream.pc = "ended" =>
        /\ pstream.chunks # <<>>
        /\ Terminal(pstream.chunks[Len(pstream.chunks)])
        /\ \A i \in 1..(Len(pstream.chunks) - 1) : ~Terminal(pstream.chunks[i])

====
